---- MODULE Spec2Model ----
(***************************************************************************)
(* Model of the document-to-graph pipeline: the Neo4j ingestion service    *)
(* (src/src/services/neo4jIngest/index.js), the retry wrapper              *)
(* (src/src/utils/retry.js), the statement formatter                       *)
(* (src/src/utils/chunking.js, formatStructuredCypher), the orchestrator   *)
(* runPipeline with the statement generation (src/unnamed/part_008), the   *)
(* stages parseDocument (src/unnamed/part_009) and extractSchema           *)
(* (src/unnamed/part_007), and the route that starts a run                 *)
(* (src/unnamed/part_010).                                                 *)
(*                                                                         *)
(* A Cypher text is a sequence of tokens.  A token stands for a run of     *)
(* characters that contains no quote, no backslash and no semicolon, or    *)
(* for one such character:                                                 *)
(*   ws    white space              semi  ';'                              *)
(*   quote one of " ' `  (id 1,2,3) bs    '\'                              *)
(*   hdr   a block comment "/* --- n) ... --- */"   (id = section number)  *)
(*   dash  a line comment "-- ..."                                         *)
(*   cc    "CREATE CONSTRAINT IF NOT EXISTS FOR ... IS UNIQUE" (id = which)*)
(*   node  "MERGE (v:Label {idProp: "   (id = which node)                  *)
(*   idv   the id value between the quotes                                 *)
(*   close "})"                                                            *)
(*   edge  "MERGE (a)-[:TYPE]->(b)"     (id = which edge)                  *)
(***************************************************************************)
EXTENDS Integers, Sequences, FiniteSets, TLC

\* ------------------------------------------------------------------ bounds
MaxConstraints == 2
MaxNodes == 2
MaxEdges == 2
MaxChunks == 2
MaxCalls == 2
MaxChunkedCalls == 1
MaxRuns == 2
MaxAnswers == 1
MaxFaults == 1
MaxDelay == 4
MaxMultiplier == 3
MaxText == 5
MaxChunkSize == 3
MaxOverlap == 3
MaxPasses == 4
MaxIds == 1
MaxNodeStmts == 2
MaxRelStmts == 1
MaxProps == 2
MaxSplitText == 5

\* ------------------------------------------------------- program constants
\* maxRetries option passed by ingestAllChunks to retryWithBackoff
IngestMaxRetries == 3

\* ------------------------------------------------------------------ tokens
Tok(t, id) == [t |-> t, id |-> id]
WS == Tok("ws", 0)
SEMI == Tok("semi", 0)
DQ == Tok("quote", 1)

RECURSIVE Concat(_)
Concat(ss) == IF ss = <<>> THEN <<>> ELSE Head(ss) \o Concat(Tail(ss))

\* String.prototype.trim on a token text: white space is dropped at both ends
RECURSIVE TrimLeft(_)
TrimLeft(s) == IF s # <<>> /\ Head(s).t = "ws" THEN TrimLeft(Tail(s)) ELSE s

RECURSIVE TrimRight(_)
TrimRight(s) ==
  IF s # <<>> /\ s[Len(s)].t = "ws" THEN TrimRight(SubSeq(s, 1, Len(s) - 1)) ELSE s

Trim(s) == TrimRight(TrimLeft(s))

\* ---------------------------------------------------- splitCypherStatements
\* the character loop of splitCypherStatements: i is the loop index, current
\* the text collected so far, inString/stringChar the quote state
RECURSIVE SplitLoop(_, _, _, _, _, _)
SplitLoop(cypher, i, current, inString, stringChar, statements) ==
  IF i > Len(cypher)
  THEN LET trimmed == Trim(current)
       IN IF Len(trimmed) > 0 THEN Append(statements, trimmed) ELSE statements
  ELSE LET char == cypher[i]
           escaped == i > 1 /\ cypher[i - 1].t = "bs"
           isQuote == char.t = "quote" /\ ~escaped
           opens == isQuote /\ ~inString
           closes == isQuote /\ inString /\ char.id = stringChar
           inString2 == IF opens THEN TRUE ELSE IF closes THEN FALSE ELSE inString
           stringChar2 == IF opens THEN char.id ELSE IF closes THEN 0 ELSE stringChar
       IN IF char.t = "semi" /\ ~inString2
          THEN LET trimmed == Trim(current)
               IN SplitLoop(cypher, i + 1, <<>>, inString2, stringChar2,
                            IF Len(trimmed) > 0 THEN Append(statements, trimmed)
                            ELSE statements)
          ELSE SplitLoop(cypher, i + 1, Append(current, char), inString2,
                         stringChar2, statements)

splitCypherStatements(cypher) ==
  IF Trim(cypher) = <<>> THEN <<>> ELSE SplitLoop(cypher, 1, <<>>, FALSE, 0, <<>>)

\* ------------------------------------- separateSchemaAndWriteStatements
isSchemaModification(statement) ==
  LET s == Trim(statement) IN s # <<>> /\ Head(s).t = "cc"

\* a statement the separator drops: empty, or starting with "--" or "/*"
IsSkipped(statement) ==
  LET s == Trim(statement) IN s = <<>> \/ Head(s).t \in {"dash", "hdr"}

schemaStatementsOf(statements) ==
  LET keep(s) == ~IsSkipped(s) /\ isSchemaModification(s) IN SelectSeq(statements, keep)

writeStatementsOf(statements) ==
  LET keep(s) == ~IsSkipped(s) /\ ~isSchemaModification(s) IN SelectSeq(statements, keep)

\* ------------------------------------------------ formatStructuredCypher
\* one node-upsert line: MERGE (v:Label {idProp: "idValue"}) and a newline
NodeLine(i) == <<Tok("node", i), DQ, Tok("idv", i), DQ, Tok("close", 0), WS>>

RECURSIVE NodeLines(_, _)
NodeLines(i, n) == IF i > n THEN <<>> ELSE NodeLine(i) \o NodeLines(i + 1, n)

RECURSIVE ConstraintLines(_, _)
ConstraintLines(i, n) ==
  IF i > n THEN <<>> ELSE <<Tok("cc", i), SEMI, WS>> \o ConstraintLines(i + 1, n)

RECURSIVE EdgeLines(_, _)
EdgeLines(j, n) ==
  IF j > n THEN <<>> ELSE <<Tok("edge", j), SEMI, WS>> \o EdgeLines(j + 1, n)

\* generateConstraints / generateConstraintsFromNodes: the header, then one
\* declaration per constraint, or two line comments when there is none
constraintsSection(nc) ==
  <<Tok("hdr", 1), WS>> \o
  (IF nc = 0 THEN <<Tok("dash", 1), WS, Tok("dash", 2), WS>> ELSE ConstraintLines(1, nc))

nodesSection(nn) == <<WS, Tok("hdr", 2), WS>> \o NodeLines(1, nn) \o <<SEMI, WS>>

relationshipsSection(ne) == <<Tok("hdr", 3), WS>> \o EdgeLines(1, ne)

\* the rendered program for nc constraints, nn >= 1 nodes and ne edges
formatStructuredCypher(nc, nn, ne) ==
  constraintsSection(nc) \o nodesSection(nn) \o relationshipsSection(ne)

\* a program the formatter returns unchanged (no node with an id property
\* was parsed): plain statements separated by semicolons, no headers
RawCypher(nc, nn, ne) ==
  ConstraintLines(1, nc) \o
  Concat([i \in 1..nn |-> NodeLine(i) \o <<SEMI, WS>>]) \o
  EdgeLines(1, ne)

\* the placeholder text generateCypherForChunk stores when generation failed:
\* '-- ERROR: No Cypher generated --'
PlaceholderCypher == <<Tok("dash", 9)>>

\* --------------------------------------------------------------- inputs
RenderedPrograms ==
  {formatStructuredCypher(nc, nn, ne) :
     nc \in 0..MaxConstraints, nn \in 1..MaxNodes, ne \in 0..MaxEdges}

RawPrograms ==
  ({RawCypher(nc, nn, ne) : nc \in 0..MaxConstraints, nn \in 0..1, ne \in 0..1}
   \ {<<>>}) \cup {<<SEMI, WS>>}

Programs == RenderedPrograms \cup RawPrograms

\* the texts generateCypherForFullDocument returns in the runs of this model:
\* a rendered program and a raw one
DocumentPrograms == {formatStructuredCypher(1, 1, 1), RawCypher(1, 1, 1)}

\* the texts generateCypherForChunk stores in the runs of this model
SegmentPrograms == {formatStructuredCypher(1, 1, 2), PlaceholderCypher}

\* the texts the chunks of a chunked document carry in this model
ChunkPrograms ==
  {formatStructuredCypher(1, 1, 1), formatStructuredCypher(1, 1, 2), PlaceholderCypher}

\* ---------------------------------------------------------------- errors
\* an Error object: its message (msg names it, words are the substrings of
\* the lower-cased message that the code tests for), code and HTTP status
Err(msg, words, code, status) ==
  [msg |-> msg, words |-> words, code |-> code, status |-> status]

NoError == Err("", {}, "", 0)

\* errors the Neo4j driver raises: a syntax or constraint error, and a
\* transaction timeout
Neo4jErrors ==
  {Err("Neo.ClientError", {"invalid"}, "neo.clienterror", 0),
   Err("Neo.TransientError", {"transaction", "timeout"}, "neo.transienterror", 0)}

\* new Error(`Cypher validation failed: ${validationResult.error}`)
ValidationError(e) ==
  Err("Cypher validation failed: " \o e.msg, e.words \cup {"validation"}, "", 0)

NoStatementsError == Err("No valid Cypher statements found", {"valid"}, "", 0)

ResultNotFoundError == Err("Cypher result not found", {}, "", 0)

NoResultsError == Err("No Cypher results found for document", {}, "", 0)

\* utils/retry.js isRetryableError
isRetryableError(error) ==
  IF error = NoError THEN FALSE
  ELSE IF error.code \in {"econnrefused", "etimedout", "enotfound", "econnreset"} THEN TRUE
  ELSE IF "timeout" \in error.words \/ "timed out" \in error.words THEN TRUE
  ELSE IF error.status >= 500 /\ error.status < 600 THEN TRUE
  ELSE IF error.status = 429 THEN TRUE
  ELSE IF "transaction" \in error.words
          /\ ("rollback" \in error.words \/ "timeout" \in error.words) THEN TRUE
  ELSE FALSE

\* the answers the schema-extraction model can give
SchemaAnswers == 1..MaxAnswers

\* ------------------------------------------------------------ the graph
\* the node-upserts and edge-upserts a statement contains
NodesOf(stmt) == {stmt[i].id : i \in {j \in 1..Len(stmt) : stmt[j].t = "node"}}
EdgesOf(stmt) == {stmt[i].id : i \in {j \in 1..Len(stmt) : stmt[j].t = "edge"}}
ConstraintsOf(stmt) == {stmt[i].id : i \in {j \in 1..Len(stmt) : stmt[j].t = "cc"}}

\* edge j is written MERGE (v_j)-[:TYPE_j]->(v_j+1): its endpoints are the
\* variables of node j and node j + 1
EndpointsOf(j) == {j, j + 1}

\* what MERGE creates when the statement runs against the visible graph: a
\* node-upsert creates its node unless it exists; an edge-upsert creates its
\* relationship unless it exists, and with it a blank node for every
\* endpoint variable the statement itself does not bind
MergeEffect(stmt, visible) ==
  LET newNodes == {<<"node", i, 0>> : i \in NodesOf(stmt)} \ visible
      newEdges == {<<"rel", j, 0>> : j \in EdgesOf(stmt)} \ visible
      blanks == UNION {{<<"blank", e[2], v>> : v \in EndpointsOf(e[2]) \ NodesOf(stmt)} :
                         e \in newEdges}
  IN newNodes \cup newEdges \cup blanks

NodeItems(items) == {x \in items : x[1] \in {"node", "blank"}}
RelItems(items) == {x \in items : x[1] = "rel"}

\* ================================================================= state
VARIABLES
  doc,        \* the Document record: status, error, processedChunks
  chunks,     \* the DocumentChunk records in chunkIndex order: status, error
  results,    \* the ChunkCypherResult of each unit; unit 0 has chunkId null
  schema,     \* the Schema record of the Document
  extra,      \* the ChunkCypherResults no lookup returns: later whole-document
              \* results, and the results of chunks that were deleted
  held,       \* the statuses the Document has been given, in order
  graph,      \* the committed nodes and relationships of the Neo4j database
  constraints,\* the uniqueness constraints the database holds
  tx,         \* the write transaction of the running ingest call
  pc,         \* position of the running ingestChunkCypher/ingestFullDocumentCypher
  unit,       \* the unit that call ingests
  k,          \* index of the next schema or write statement of that call
  counts,     \* the call's local nodesCreated and relationshipsCreated
  err,        \* the error the call's catch block holds
  ret,        \* how the last ingest call ended
  log,        \* the driver calls the running ingest call has made, in order
  graph0,     \* the committed graph when the running ingest call started
  prevRet,    \* per unit, how the previous ingest call of that unit ended
  faults,     \* the failures Neo4j may still answer with (Unlimited: any number)
  apc,        \* position of ingestAllChunks
  idx,        \* the chunk ingestAllChunks is at
  attempt,    \* retryWithBackoff's attempt counter for the current unit
  snapshot,   \* the chunk statuses ingestAllChunks read with find()
  tally,      \* successCount, errorCount, totalNodes, totalRelationships
  order,      \* the units ingestAllChunks has submitted, in order
  unitErr,    \* per unit, the error its ingestion finally failed with
  aret,       \* how the last ingestAllChunks call ended
  calls,      \* number of calls made from outside the pipeline since the last
              \* run started
  tries,      \* per unit, retryWithBackoff's calls of the ingest function, the
              \* delays it waited, and the thrown errors that shouldRetry
              \* accepted (retryable) and refused
  ppc,        \* position of runPipeline
  pipe,       \* runPipeline's outcome and the stage history of the run
  parked,     \* position and history of a run of the Document that waits at
              \* an await while a run started after it executes
  rs,         \* a call of retryWithBackoff: its options, attempt and delay, and
              \* the delays it has waited
  ck,         \* a call of chunkText: its arguments, startIdx and the chunks
  fm          \* a generated text on its way through fixCypherSyntax and
              \* formatStructuredCypher

vars == <<doc, chunks, results, schema, extra, held, graph, constraints, tx, pc, unit,
          k, counts, err, ret, log, graph0, prevRet, faults, apc, idx, attempt,
          snapshot, tally, order, unitErr, aret, calls, tries, ppc, pipe, parked,
          rs, ck, fm>>

storeVars == <<doc, chunks, results, schema, extra, held>>
\* the records and the history that only runPipeline's stages touch
sideVars == <<schema, extra>>
neoVars == <<graph, constraints, tx>>
callVars == <<pc, unit, k, counts, err, ret, log, graph0, prevRet, faults>>
allVars == <<apc, idx, attempt, snapshot, tally, order, unitErr, aret, calls, tries>>
\* the calls of the utilities, which the pipeline model leaves idle
utilVars == <<rs, ck, fm>>
pipeVars == <<ppc, pipe, parked, utilVars>>

Units == 0..MaxChunks

NoResult ==
  [exists |-> FALSE, generatedCypher |-> <<>>, status |-> "generated", error |-> NoError,
   nodesCreated |-> 0, relationshipsCreated |-> 0]

\* new ChunkCypherResult({generatedCypher, status}) with the schema defaults
NewResult(cypher, status) ==
  [exists |-> TRUE, generatedCypher |-> cypher, status |-> status, error |-> NoError,
   nodesCreated |-> 0, relationshipsCreated |-> 0]

\* new DocumentChunk({status})
NewChunk(status) == [status |-> status, error |-> NoError]

\* no Schema record; a stored one holds the nodes and relationships the
\* extraction model answered (which answer), or the empty ones of the error
\* record (nodes 0, failed)
NoSchema == [exists |-> FALSE, nodes |-> 0, failed |-> FALSE]
NewSchema(answer) == [exists |-> TRUE, nodes |-> answer, failed |-> FALSE]
ErrorSchema == [exists |-> TRUE, nodes |-> 0, failed |-> TRUE]

NoExtra == [full |-> <<>>, orphaned |-> 0]

\* new Document({status: 'uploaded'})
NewDocument ==
  [status |-> "uploaded", error |-> NoError, totalChunks |-> 0, processedChunks |-> 0,
   fullText |-> "none"]

NoTries == [invoked |-> 0, waited |-> 0, retryable |-> 0, refused |-> 0]

NoTx == [open |-> FALSE, writes |-> {}]

\* the failures left to the database, and what is left after one more
Unlimited == 0 - 1
CanFail == faults # 0
Spend(failed) == IF failed /\ faults # Unlimited THEN faults - 1 ELSE faults
NoRet == [kind |-> "none", nodesCreated |-> 0, relationshipsCreated |-> 0,
          error |-> NoError, cached |-> FALSE]
ZeroCounts == [nodesCreated |-> 0, relationshipsCreated |-> 0]
ZeroTally == [successCount |-> 0, errorCount |-> 0, totalNodes |-> 0,
              totalRelationships |-> 0]
\* a call of generateCypherForFullDocument from outside a run: whether it was
\* made, whether the Schema was stored then, whether it called the model and
\* whether it threw
NoDirect == [made |-> FALSE, schema |-> FALSE, called |-> FALSE, threw |-> FALSE]

\* runPipeline's options and environment, the stages it has started, the
\* stage that threw and its error, and how the run ended
NoPipe == [useFullDocument |-> TRUE, interactive |-> FALSE, stages |-> <<>>,
           failed |-> "none", failure |-> NoError, declined |-> FALSE,
           completion |-> "none", outcome |-> "none",
           run |-> 0, skipConfirmation |-> FALSE, asked |-> 0, rejected |-> FALSE,
           ext |-> <<>>, graphStart |-> {}, direct |-> NoDirect]

\* no run waits
NoFrame == [ppc |-> "none", pipe |-> NoPipe]

\* no utility call is observed
NoBackoff == [called |-> FALSE]
NoChunker == [called |-> FALSE]
NoFormat == [called |-> FALSE]
UtilIdle == rs = NoBackoff /\ ck = NoChunker /\ fm = NoFormat

\* the result and chunk a generated (or failed) chunk text leaves in the store
ResultForChunk(cypher) ==
  NewResult(cypher, IF cypher = PlaceholderCypher THEN "error" ELSE "generated")
ChunkFor(cypher) ==
  NewChunk(IF cypher = PlaceholderCypher THEN "error" ELSE "cypher_generated")

\* the parts of the state that no call has touched yet
IdleFrames ==
  /\ graph = {} /\ constraints = {} /\ tx = NoTx
  /\ pc = "idle" /\ unit = 0 /\ k = 0 /\ counts = ZeroCounts /\ err = NoError
  /\ ret = NoRet /\ log = <<>> /\ graph0 = {}
  /\ prevRet = [u \in Units |-> NoRet]
  /\ apc = "idle" /\ idx = 0 /\ attempt = 0 /\ snapshot = <<>> /\ tally = ZeroTally
  /\ order = <<>> /\ unitErr = [u \in Units |-> NoError] /\ aret = "none" /\ calls = 0
  /\ tries = [u \in Units |-> NoTries]

\* the store after statement generation: either a whole-document result, or
\* up to MaxChunks chunks, each with its own result
Init ==
  /\ IdleFrames /\ faults = Unlimited
  /\ ppc = "none" /\ pipe = NoPipe /\ parked = NoFrame /\ UtilIdle
  /\ held = <<"uploaded", "parsing", "parsed", "cypher_generating">>
  /\ schema = NewSchema(1) /\ extra = NoExtra
  /\ \/ /\ chunks = <<>>
        /\ \E p \in Programs :
             results = [u \in Units |-> IF u = 0 THEN NewResult(p, "generated") ELSE NoResult]
     \/ \E n \in 0..MaxChunks : \E ps \in [1..n -> ChunkPrograms] :
          /\ chunks = [i \in 1..n |-> ChunkFor(ps[i])]
          /\ results = [u \in Units |->
                          IF u \in 1..n THEN ResultForChunk(ps[u]) ELSE NoResult]
  /\ doc = [NewDocument EXCEPT !.status = "cypher_generating", !.fullText = "text",
                               !.totalChunks = IF results[0].exists THEN 1 ELSE Len(chunks)]

\* ============================================================ ingest call
Event(op, session, stmt, ok) == [op |-> op, session |-> session, stmt |-> stmt, ok |-> ok]

statements == splitCypherStatements(results[unit].generatedCypher)
schemaStatements == schemaStatementsOf(statements)
writeStatements == writeStatementsOf(statements)

Returned(c, cached) ==
  [kind |-> "return", nodesCreated |-> c.nodesCreated,
   relationshipsCreated |-> c.relationshipsCreated, error |-> NoError, cached |-> cached]
Thrown(e) ==
  [kind |-> "throw", nodesCreated |-> 0, relationshipsCreated |-> 0, error |-> e,
   cached |-> FALSE]

\* chunk.updateOne({status, error}) of the unit's chunk; the whole-document
\* unit has none
UpdateChunk(u, status, e) ==
  IF u = 0 THEN chunks ELSE [chunks EXCEPT ![u] = [status |-> status, error |-> e]]

\* chunk.updateOne({status}): the error field keeps its value
UpdateChunkStatus(u, status) ==
  IF u = 0 THEN chunks ELSE [chunks EXCEPT ![u].status = status]

\* an ingest call without the early return
AlreadyExecuted_Never(r) == FALSE

\* the early return for a result that was already executed
AlreadyExecuted(r) == r.status = "executed"

\* ingestChunkCypher / ingestFullDocumentCypher, up to the validation session
IngestCall ==
  /\ pc = "call"
  /\ log' = <<>> /\ graph0' = graph /\ k' = 0 /\ counts' = ZeroCounts /\ err' = NoError
  /\ IF ~results[unit].exists
     THEN pc' = "ret" /\ ret' = Thrown(ResultNotFoundError)
     ELSE IF AlreadyExecuted(results[unit])
          THEN pc' = "ret" /\ ret' = Returned(results[unit], TRUE)
          ELSE pc' = "validate" /\ ret' = NoRet
  /\ UNCHANGED <<storeVars, neoVars, unit, prevRet, faults, allVars, pipeVars>>

\* the explain events of validateCypher: statements 1..n are explained, and
\* the last of them is rejected when rejected is TRUE
ExplainEvents(n, rejected) ==
  [i \in 1..n |-> Event("explain", "read", statements[i], ~(rejected /\ i = n))]

\* a call that goes on whatever the validation result is
AfterValidation_Ignored(valid) == "proceed"

\* what the call does with the validation result
AfterValidation(valid) == IF valid THEN "proceed" ELSE "throw"

\* where the call goes once validation has passed and the text is split
AfterSplit ==
  IF Len(statements) = 0 THEN "catch"
  ELSE IF Len(schemaStatements) > 0 THEN "schema" ELSE "begin"

\* validateCypher in the read session, then the two status updates and the
\* split; r = 0 when every EXPLAIN passes, else statement r is rejected
Validate ==
  /\ pc = "validate"
  /\ \E r \in 0..Len(statements) : \E e \in Neo4jErrors :
       LET n == IF r = 0 THEN Len(statements) ELSE r
           valid == r = 0
       IN /\ (r = 0 => e = CHOOSE x \in Neo4jErrors : TRUE)
          /\ (r # 0 => CanFail) /\ faults' = Spend(r # 0)
          /\ log' = log \o ExplainEvents(n, ~valid)
          /\ IF AfterValidation(valid) = "throw"
             THEN /\ pc' = "ret" /\ ret' = Thrown(ValidationError(e))
                  /\ UNCHANGED <<storeVars, k, err>>
             ELSE /\ chunks' = UpdateChunkStatus(unit, "ingesting")
                  /\ results' = [results EXCEPT ![unit].status = "validated"]
                  /\ pc' = AfterSplit
                  /\ err' = IF AfterSplit = "catch" THEN NoStatementsError ELSE NoError
                  /\ k' = 1
                  /\ UNCHANGED <<doc, sideVars, held, ret>>
  /\ UNCHANGED <<neoVars, unit, counts, graph0, prevRet, allVars, pipeVars>>

\* a schema loop that gives up at the first failed statement
AfterSchemaStatement_Abort(ok, kk, n) ==
  IF ~ok THEN "catch" ELSE IF kk < n THEN "schema" ELSE "begin"

\* where the schema loop goes after statement kk of n, run with outcome ok
AfterSchemaStatement(ok, kk, n) == IF kk < n THEN "schema" ELSE "begin"

\* one schemaSession.run(schemaStatement); a failure is swallowed, with or
\* without a warning
SchemaRun ==
  /\ pc = "schema"
  /\ \E outcome \in {"ok", "already exists", "other"} :
       LET stmt == schemaStatements[k]
           ok == outcome = "ok"
       IN /\ (~ok => CanFail) /\ faults' = Spend(~ok)
          /\ log' = Append(log, Event("schema", "schema", stmt, ok))
          /\ constraints' = IF ok THEN constraints \cup ConstraintsOf(stmt) ELSE constraints
          /\ pc' = AfterSchemaStatement(ok, k, Len(schemaStatements))
          /\ IF pc' = "schema" THEN k' = k + 1
             ELSE IF pc' = "begin" THEN k' = 1
             ELSE k' = k
          /\ err' = IF pc' = "catch" THEN CHOOSE x \in Neo4jErrors : TRUE ELSE err
  /\ UNCHANGED <<storeVars, graph, tx, unit, counts, ret, graph0, prevRet, allVars,
                 pipeVars>>

\* "if (writeStatements.length === 0) return {0, 0}", else beginTransaction
BeginTx ==
  /\ pc = "begin"
  /\ IF Len(writeStatements) = 0
     THEN /\ pc' = "ret" /\ ret' = Returned(ZeroCounts, FALSE)
          /\ UNCHANGED <<tx, log>>
     ELSE /\ tx' = [open |-> TRUE, writes |-> {}]
          /\ log' = Append(log, Event("begin", "write", <<>>, TRUE))
          /\ pc' = "write"
          /\ UNCHANGED ret
  /\ k' = 1 /\ counts' = ZeroCounts
  /\ UNCHANGED <<storeVars, graph, constraints, unit, err, graph0, prevRet, faults,
                 allVars, pipeVars>>

\* a write loop without the break after a failed statement
AfterWriteStatement_NoBreak(ok, kk, n) == IF kk < n THEN "write" ELSE "commit"

\* where the write loop goes after statement kk of n, run with outcome ok
AfterWriteStatement(ok, kk, n) ==
  IF ~ok THEN "catch" ELSE IF kk < n THEN "write" ELSE "commit"

\* one tx.run(statement) with its counters
TxRun ==
  /\ pc = "write"
  /\ \E ok \in BOOLEAN : \E e \in Neo4jErrors :
       LET stmt == writeStatements[k]
           created == MergeEffect(stmt, graph \cup tx.writes)
       IN /\ (ok => e = CHOOSE x \in Neo4jErrors : TRUE)
          /\ (~ok => CanFail) /\ faults' = Spend(~ok)
          /\ log' = Append(log, Event("run", "write", stmt, ok))
          /\ tx' = IF ok THEN [tx EXCEPT !.writes = @ \cup created] ELSE tx
          /\ counts' = IF ok
                       THEN [nodesCreated |-> counts.nodesCreated
                                              + Cardinality(NodeItems(created)),
                             relationshipsCreated |-> counts.relationshipsCreated
                                              + Cardinality(RelItems(created))]
                       ELSE counts
          /\ pc' = AfterWriteStatement(ok, k, Len(writeStatements))
          /\ k' = IF pc' = "write" THEN k + 1 ELSE k
          /\ err' = IF ok THEN err ELSE e
  /\ UNCHANGED <<storeVars, graph, constraints, unit, ret, graph0, prevRet, allVars,
                 pipeVars>>

\* tx.commit(), then the result and the chunk are marked executed/ingested
Commit ==
  /\ pc = "commit"
  /\ \E ok \in BOOLEAN : \E e \in Neo4jErrors :
       /\ (ok => e = CHOOSE x \in Neo4jErrors : TRUE)
       /\ (~ok => CanFail) /\ faults' = Spend(~ok)
       /\ log' = Append(log, Event("commit", "write", <<>>, ok))
       /\ IF ok
          THEN /\ graph' = graph \cup tx.writes
               /\ tx' = NoTx
               /\ results' = [results EXCEPT ![unit].status = "executed",
                                             ![unit].nodesCreated = counts.nodesCreated,
                                             ![unit].relationshipsCreated =
                                                counts.relationshipsCreated]
               /\ chunks' = UpdateChunkStatus(unit, "ingested")
               /\ pc' = "ret" /\ ret' = Returned(counts, FALSE)
               /\ UNCHANGED err
          ELSE /\ pc' = "catch" /\ err' = e
               /\ UNCHANGED <<graph, tx, results, chunks, ret>>
  /\ UNCHANGED <<doc, sideVars, held, constraints, unit, k, counts, graph0, prevRet,
                 allVars, pipeVars>>

\* a catch block in which a throwing rollback escapes
CatchOutcome_RollbackEscapes(e, threw, rbErr) ==
  IF threw THEN [persist |-> FALSE, thrown |-> rbErr] ELSE [persist |-> TRUE, thrown |-> e]

\* what the catch block does with the caught error e when tx.rollback()
\* threw rbErr (threw = TRUE) or did not
CatchOutcome(e, threw, rbErr) == [persist |-> TRUE, thrown |-> e]

\* the catch block: rollback when a transaction is held, persist the error
\* on the result and the chunk, rethrow
Catch ==
  /\ pc = "catch"
  /\ \E threw \in BOOLEAN : \E rbErr \in Neo4jErrors :
       LET out == CatchOutcome(err, tx.open /\ threw, rbErr)
       IN /\ (~(tx.open /\ threw) => rbErr = CHOOSE x \in Neo4jErrors : TRUE)
          /\ (~tx.open => ~threw)
          /\ (threw => CanFail) /\ faults' = Spend(threw)
          /\ log' = IF tx.open
                    THEN Append(log, Event("rollback", "write", <<>>, ~threw))
                    ELSE log
          /\ tx' = NoTx
          /\ IF out.persist
             THEN /\ results' = [results EXCEPT ![unit].status = "error",
                                                ![unit].error = err]
                  /\ chunks' = UpdateChunk(unit, "error", err)
             ELSE UNCHANGED <<results, chunks>>
          /\ pc' = "ret" /\ ret' = Thrown(out.thrown)
  /\ UNCHANGED <<doc, sideVars, held, graph, constraints, unit, k, counts, err, graph0,
                 prevRet, allVars, pipeVars>>

\* ======================================================== ingestAllChunks
\* the shouldRetry option ingestAllChunks passes to retryWithBackoff: in
\* chunked mode it also reads the status of the chunk object find() returned
shouldRetry(error, u) ==
  IF u = 0 THEN isRetryableError(error)
  ELSE isRetryableError(error) \/ snapshot[u] = "error"

\* the loop of retryWithBackoff runs attempt = 0..maxRetries: the attempt
\* after which it does not call again
LastAttempt_OneFewer(att, maxRetries) == att + 1 >= maxRetries
LastAttempt(att, maxRetries) == att >= maxRetries

\* retryWithBackoff after a failed attempt: rethrow when the error is not to
\* be retried or the attempts are used up, else call again
AfterFailedAttempt_RetriesAll(retry, att, maxRetries) ==
  IF LastAttempt(att, maxRetries) THEN "throw" ELSE "again"
AfterFailedAttempt(retry, att, maxRetries) ==
  IF ~retry THEN "throw" ELSE IF LastAttempt(att, maxRetries) THEN "throw" ELSE "again"

\* a chunk loop that stops at the first failed chunk
AfterUnit_StopOnFailure(failed, i, n) ==
  IF failed THEN "final" ELSE IF i < n THEN "next" ELSE "final"

\* where ingestAllChunks goes after unit i of n chunks (i = 0, n = 0 for the
\* whole-document unit) succeeded or failed
AfterUnit(failed, i, n) == IF i < n THEN "next" ELSE "final"

\* retryWithBackoff has asked shouldRetry about a thrown error
Judged(t, retry) ==
  IF retry THEN [t EXCEPT !.retryable = @ + 1] ELSE [t EXCEPT !.refused = @ + 1]

\* retryWithBackoff enters its loop for unit u: the first call of fn
FirstTry(u) == [v \in Units |-> IF v = u THEN [NoTries EXCEPT !.invoked = 1] ELSE NoTries]

\* the first lines of ingestAllChunks
StartIngestAll ==
  /\ apc = "idle" /\ pc = "idle"
  /\ doc' = [doc EXCEPT !.status = "ingesting"]
  /\ held' = Append(held, "ingesting")
  /\ snapshot' = [i \in 1..Len(chunks) |-> chunks[i].status]
  /\ tally' = ZeroTally
  /\ unitErr' = [u \in Units |-> NoError]
  /\ attempt' = 0
  /\ IF results[0].exists
     THEN /\ apc' = "unit" /\ idx' = 0 /\ unit' = 0 /\ pc' = "call" /\ order' = <<0>>
          /\ aret' = "none" /\ tries' = FirstTry(0)
     ELSE IF Len(chunks) > 0
          THEN /\ apc' = "unit" /\ idx' = 1 /\ unit' = 1 /\ pc' = "call"
               /\ order' = <<1>> /\ aret' = "none" /\ tries' = FirstTry(1)
          ELSE /\ apc' = "idle" /\ aret' = "throw" /\ order' = <<>>
               /\ tries' = [u \in Units |-> NoTries]
               /\ UNCHANGED <<idx, unit, pc>>
  /\ UNCHANGED <<chunks, results, sideVars, neoVars, k, counts, err, ret, log, graph0,
                 prevRet, faults>>

\* a caller outside the pipeline invokes ingestAllChunks(docId)
CallIngestAll ==
  /\ ppc = "none"
  /\ calls < (IF results[0].exists THEN MaxCalls ELSE MaxChunkedCalls)
  /\ StartIngestAll
  /\ calls' = calls + 1
  /\ UNCHANGED pipeVars

\* the move to the next chunk, or to the final status update
Advance(failed, t) ==
  LET n == IF idx = 0 THEN 0 ELSE Len(snapshot)
  IN IF AfterUnit(failed, idx, n) = "next"
     THEN /\ idx' = idx + 1 /\ unit' = idx + 1 /\ attempt' = 0 /\ pc' = "call"
          /\ order' = Append(order, idx + 1) /\ apc' = "unit"
          /\ tries' = [t EXCEPT ![idx + 1] = [NoTries EXCEPT !.invoked = 1]]
     ELSE /\ apc' = "final" /\ pc' = "idle" /\ tries' = t
          /\ UNCHANGED <<idx, unit, attempt, order>>

\* the ingest call returned: the counts are added and the unit is a success
UnitSucceeded ==
  /\ apc = "unit" /\ pc = "ret" /\ ret.kind = "return"
  /\ tally' = [tally EXCEPT
                 !.successCount = @ + 1,
                 !.totalNodes = IF unit = 0 THEN ret.nodesCreated ELSE @ + ret.nodesCreated,
                 !.totalRelationships = IF unit = 0 THEN ret.relationshipsCreated
                                        ELSE @ + ret.relationshipsCreated]
  /\ prevRet' = [prevRet EXCEPT ![unit] = ret]
  /\ Advance(FALSE, tries)
  /\ UNCHANGED <<storeVars, neoVars, k, counts, err, ret, log, graph0, faults, snapshot,
                 unitErr, aret, calls, pipeVars>>

\* the ingest call threw and retryWithBackoff calls it again
UnitRetry ==
  /\ apc = "unit" /\ pc = "ret" /\ ret.kind = "throw"
  /\ AfterFailedAttempt(shouldRetry(ret.error, unit), attempt, IngestMaxRetries) = "again"
  /\ attempt' = attempt + 1
  /\ tries' = [tries EXCEPT ![unit] = Judged(@, shouldRetry(ret.error, unit)),
                            ![unit].waited = @ + 1, ![unit].invoked = @ + 1]
  /\ pc' = "call"
  /\ prevRet' = [prevRet EXCEPT ![unit] = ret]
  /\ UNCHANGED <<storeVars, neoVars, unit, k, counts, err, ret, log, graph0, faults, apc,
                 idx, snapshot, tally, order, unitErr, aret, calls, pipeVars>>

\* the ingest call threw and retryWithBackoff rethrows: the unit is a failure
UnitFailed ==
  /\ apc = "unit" /\ pc = "ret" /\ ret.kind = "throw"
  /\ AfterFailedAttempt(shouldRetry(ret.error, unit), attempt, IngestMaxRetries) = "throw"
  /\ tally' = [tally EXCEPT !.errorCount = @ + 1]
  /\ unitErr' = [unitErr EXCEPT ![unit] = ret.error]
  /\ prevRet' = [prevRet EXCEPT ![unit] = ret]
  /\ Advance(TRUE, [tries EXCEPT ![unit] = Judged(@, shouldRetry(ret.error, unit))])
  /\ UNCHANGED <<storeVars, neoVars, k, counts, err, ret, log, graph0, faults, snapshot,
                 aret, calls, pipeVars>>

\* the final status ingestAllChunks stores on the Document
finalStatus(t) ==
  IF t.errorCount = 0 THEN "completed"
  ELSE IF t.successCount > 0 THEN "completed" ELSE "error"

IngestAllFinish ==
  /\ apc = "final"
  /\ doc' = [doc EXCEPT !.status = finalStatus(tally),
                        !.processedChunks = tally.successCount]
  /\ held' = Append(held, finalStatus(tally))
  /\ apc' = "idle" /\ aret' = "return"
  /\ UNCHANGED <<chunks, results, sideVars, neoVars, callVars, idx, attempt, snapshot,
                 tally, order, unitErr, calls, tries, pipeVars>>

IngestSteps ==
  \/ IngestCall \/ Validate \/ SchemaRun \/ BeginTx \/ TxRun \/ Commit \/ Catch
  \/ UnitSucceeded \/ UnitRetry \/ UnitFailed \/ IngestAllFinish

Next ==
  \/ CallIngestAll
  \/ IngestCall \/ Validate \/ SchemaRun \/ BeginTx \/ TxRun \/ Commit \/ Catch
  \/ UnitSucceeded \/ UnitRetry \/ UnitFailed \/ IngestAllFinish

Spec == Init /\ [][Next]_vars

\* ============================================================ runPipeline
ParseError == Err("parse failed", {}, "", 0)
SchemaError == Err("schema extraction failed", {}, "", 0)
GenerationError == Err("generation failed", {}, "", 0)
NoCypherError == Err("No Cypher was successfully generated for any chunk", {}, "", 0)
SchemaNotFoundError == Err("Schema not found for document", {}, "", 0)
DuplicateKeyError == Err("E11000 duplicate key error", {}, "", 0)

\* a Document just uploaded, no run started
Uploaded ==
  /\ IdleFrames /\ faults = MaxFaults
  /\ doc = NewDocument /\ held = <<"uploaded">>
  /\ chunks = <<>>
  /\ results = [u \in Units |-> NoResult]
  /\ schema = NoSchema /\ extra = NoExtra
  /\ ppc = "none" /\ pipe = NoPipe /\ parked = NoFrame

PipeInit == Uploaded /\ UtilIdle

\* a stage threw e: control goes to runPipeline's catch block
StageThrows(stage, e) ==
  /\ ppc' = "catch"
  /\ pipe' = [pipe EXCEPT !.stages = Append(@, stage), !.failed = stage, !.failure = e]

StageStarts(stage) == [pipe EXCEPT !.stages = Append(@, stage)]

\* a call of the parser or of a model: what it computes, for which unit, and
\* whether that artifact and the Schema were stored when it was made
ExternalCall(op, u, stored) == [op |-> op, unit |-> u, stored |-> stored, schema |-> schema.exists]

\* runPipeline up to the try block; useFullDocument is one of the values the
\* caller passes, and the locals of the run are new
StartRun(modes) ==
  /\ pipe.run < MaxRuns
  /\ pc = "idle" /\ apc = "idle"
  /\ doc' = [doc EXCEPT !.status = "parsing"]
  /\ held' = Append(held, "parsing")
  /\ ppc' = "parse"
  /\ \E full \in modes :
       pipe' = [NoPipe EXCEPT !.useFullDocument = full, !.run = pipe.run + 1,
                              !.graphStart = graph]
  /\ unit' = 0 /\ k' = 0 /\ counts' = ZeroCounts /\ err' = NoError /\ ret' = NoRet
  /\ log' = <<>> /\ graph0' = {} /\ prevRet' = [u \in Units |-> NoRet]
  /\ idx' = 0 /\ attempt' = 0 /\ snapshot' = <<>> /\ tally' = ZeroTally /\ order' = <<>>
  /\ unitErr' = [u \in Units |-> NoError] /\ aret' = "none"
  /\ tries' = [u \in Units |-> NoTries] /\ calls' = 0
  /\ UNCHANGED <<chunks, results, sideVars, neoVars, pc, apc, faults, utilVars>>

\* runPipeline is called for a Document no run is working on
PipeStart ==
  /\ ppc \in {"none", "done"}
  /\ StartRun(BOOLEAN)
  /\ UNCHANGED parked

\* parseDocument returns the stored text of a Document that is parsed
AlreadyParsed(d) == d.status = "parsed" /\ d.fullText # "none"

\* step 1, parseDocument: the stored text, or status parsing, the parser, and
\* then parsed with the text, or error with the message
PipeParse ==
  /\ ppc = "parse"
  /\ IF AlreadyParsed(doc)
     THEN /\ ppc' = "chunk" /\ pipe' = StageStarts("parse")
          /\ UNCHANGED <<doc, held>>
     ELSE \/ /\ doc' = [doc EXCEPT !.status = "parsed", !.fullText = "text"]
             /\ held' = held \o <<"parsing", "parsed">>
             /\ ppc' = "chunk"
             /\ pipe' = [StageStarts("parse") EXCEPT
                           !.ext = Append(@, ExternalCall("parser", 0, doc.fullText # "none"))]
          \/ /\ doc' = [doc EXCEPT !.status = "error", !.error = ParseError]
             /\ held' = held \o <<"parsing", "error">>
             /\ ppc' = "catch"
             /\ pipe' = [pipe EXCEPT
                           !.stages = Append(@, "parse"), !.failed = "parse",
                           !.failure = ParseError,
                           !.ext = Append(@, ExternalCall("parser", 0, doc.fullText # "none"))]
  /\ UNCHANGED <<chunks, results, sideVars, neoVars, callVars, allVars, parked, utilVars>>

\* the stored results of the chunks 1..n
ChunkResults(n) == Cardinality({u \in 1..n : results[u].exists})

\* step 2: in chunked mode the old chunks are deleted and the new ones saved
\* (chunkText gives at least one chunk for the text of this model, which is
\* not empty); the results of the deleted chunks stay in the store
PipeChunk ==
  /\ ppc = "chunk"
  /\ IF pipe.useFullDocument
     THEN UNCHANGED <<chunks, results, extra>>
     ELSE /\ \E n \in 1..MaxChunks : chunks' = [i \in 1..n |-> NewChunk("pending")]
          /\ results' = [u \in Units |-> IF u = 0 THEN results[0] ELSE NoResult]
          /\ extra' = [extra EXCEPT !.orphaned = @ + ChunkResults(Len(chunks))]
  /\ doc' = [doc EXCEPT !.totalChunks = IF pipe.useFullDocument THEN 1 ELSE Len(chunks'),
                        !.processedChunks = 0]
  /\ ppc' = "schema"
  /\ UNCHANGED <<schema, held, neoVars, callVars, allVars, pipe, parked, utilVars>>

\* extractSchema's lookup: Schema.findOne({ docId }) found a record
SchemaStored_Never(s) == FALSE
SchemaStored(s) == s.exists

\* step 3, extractSchema: the stored Schema, or the extraction model and the
\* save of its answer, which the unique index on docId accepts when the
\* Document has no Schema; on failure the error record is saved when the
\* store accepts it, and the error is rethrown
PipeSchema ==
  /\ ppc = "schema"
  /\ IF SchemaStored(schema)
     THEN /\ ppc' = "constraints" /\ pipe' = StageStarts("schema")
          /\ UNCHANGED schema
     ELSE \/ \E answer \in SchemaAnswers :
               /\ ~schema.exists
               /\ schema' = NewSchema(answer)
               /\ ppc' = "constraints"
               /\ pipe' = [StageStarts("schema") EXCEPT
                             !.ext = Append(@, ExternalCall("schemaModel", 0, schema.exists))]
          \/ \E saved \in BOOLEAN :
               /\ schema' = IF saved /\ ~schema.exists THEN ErrorSchema ELSE schema
               /\ ppc' = "catch"
               /\ pipe' = [pipe EXCEPT
                             !.stages = Append(@, "schema"), !.failed = "schema",
                             !.failure = SchemaError,
                             !.ext = Append(@, ExternalCall("schemaModel", 0, schema.exists))]
  /\ UNCHANGED <<doc, chunks, results, extra, held, neoVars, callVars, allVars, parked, utilVars>>

\* step 4, createConstraints: a failure is logged and swallowed
PipeConstraints ==
  /\ ppc = "constraints"
  /\ \E created \in {{}, 1..MaxConstraints} : constraints' = constraints \cup created
  /\ ppc' = "generate"
  /\ UNCHANGED <<storeVars, graph, tx, callVars, allVars, pipe, parked, utilVars>>

\* generateCypherForChunk and generateCypherForFullDocument go on to the
\* model when Schema.findOne({ docId }) found a record, and throw otherwise
SchemaFound_Always(s) == TRUE
SchemaFound(s) == s.exists

\* the generation-model calls of generateCypherForAllChunks, one chunk after
\* the other
ChunkCalls(n) == [i \in 1..n |-> ExternalCall("generationModel", i, results[i].exists)]

\* step 5: status cypher_generating, then generateCypherForFullDocument and
\* the save of a new whole-document result (which the store accepts, or
\* rejects as a duplicate of the stored one), or generateCypherForAllChunks,
\* which stores a result per chunk
PipeGenerate ==
  /\ ppc = "generate"
  /\ doc' = [doc EXCEPT !.status = "cypher_generating"]
  /\ held' = Append(held, "cypher_generating")
  /\ IF pipe.useFullDocument
     THEN IF ~SchemaFound(schema)
          THEN /\ StageThrows("generate", SchemaNotFoundError)
               /\ UNCHANGED <<chunks, results, extra>>
          ELSE LET call == ExternalCall("generationModel", 0, results[0].exists)
               IN \/ \E p \in DocumentPrograms : \E accepted \in BOOLEAN :
                       /\ ~results[0].exists => accepted
                       /\ IF ~results[0].exists
                          THEN /\ results' = [results EXCEPT ![0] = NewResult(p, "generated")]
                               /\ UNCHANGED extra
                          ELSE /\ extra' = IF accepted
                                           THEN [extra EXCEPT !.full =
                                                   Append(@, NewResult(p, "generated"))]
                                           ELSE extra
                               /\ UNCHANGED results
                       /\ IF accepted
                          THEN /\ ppc' = "checkpoint"
                               /\ pipe' = [StageStarts("generate") EXCEPT
                                             !.ext = Append(@, call)]
                          ELSE /\ ppc' = "catch"
                               /\ pipe' = [pipe EXCEPT
                                             !.stages = Append(@, "generate"),
                                             !.failed = "generate",
                                             !.failure = DuplicateKeyError,
                                             !.ext = Append(@, call)]
                       /\ UNCHANGED chunks
                  \/ /\ ppc' = "catch"
                     /\ pipe' = [pipe EXCEPT
                                   !.stages = Append(@, "generate"), !.failed = "generate",
                                   !.failure = GenerationError, !.ext = Append(@, call)]
                     /\ UNCHANGED <<chunks, results, extra>>
     ELSE \E ps \in [1..Len(chunks) -> SegmentPrograms] :
            LET made == IF SchemaFound(schema) THEN ChunkCalls(Len(chunks)) ELSE <<>>
                out == [i \in 1..Len(chunks) |->
                          IF SchemaFound(schema) THEN ps[i] ELSE PlaceholderCypher]
            IN /\ (~SchemaFound(schema) =>
                    \A i \in 1..Len(chunks) : ps[i] = PlaceholderCypher)
               /\ chunks' = [i \in 1..Len(chunks) |->
                               IF out[i] = PlaceholderCypher
                               THEN [status |-> "error",
                                     error |-> IF SchemaFound(schema) THEN GenerationError
                                               ELSE SchemaNotFoundError]
                               ELSE [chunks[i] EXCEPT !.status = "cypher_generated"]]
               /\ results' = [u \in Units |->
                                IF u \in 1..Len(chunks) THEN ResultForChunk(out[u])
                                ELSE results[u]]
               /\ IF \A i \in 1..Len(chunks) : out[i] = PlaceholderCypher
                  THEN /\ ppc' = "catch"
                       /\ pipe' = [pipe EXCEPT
                                     !.stages = Append(@, "generate"),
                                     !.failed = "generate", !.failure = NoCypherError,
                                     !.ext = @ \o made]
                  ELSE /\ ppc' = "checkpoint"
                       /\ pipe' = [StageStarts("generate") EXCEPT !.ext = @ \o made]
               /\ UNCHANGED extra
  /\ UNCHANGED <<schema, neoVars, callVars, allVars, parked, utilVars>>

\* generateCypherForFullDocument(docId) called from outside a run, between
\* runs: without a Schema it throws before the model is called; with one it
\* calls the model and returns the text or throws.  It stores nothing
CallGenerate ==
  /\ ppc \in {"none", "done"} /\ calls < MaxCalls
  /\ calls' = calls + 1
  /\ LET call == ExternalCall("generationModel", 0, results[0].exists)
         made == [NoDirect EXCEPT !.made = TRUE, !.schema = schema.exists]
     IN IF ~SchemaFound(schema)
        THEN pipe' = [pipe EXCEPT !.direct = [made EXCEPT !.threw = TRUE]]
        ELSE \E threw \in BOOLEAN :
               pipe' = [pipe EXCEPT !.ext = Append(@, call),
                                    !.direct = [made EXCEPT !.called = TRUE,
                                                            !.threw = threw]]
  /\ UNCHANGED <<storeVars, neoVars, callVars, apc, idx, attempt, snapshot, tally, order,
                 unitErr, aret, tries, ppc, parked, utilVars>>

\* the checkpoint is asked on a terminal unless SKIP_CYPHER_CONFIRMATION is set
Asks_IgnoresSkip(tty, skip) == tty
Asks(tty, skip) == tty /\ ~skip

\* the two questions of the checkpoint; without them the run goes on to the
\* ingestion.  A no to the first deletes every result of the Document, a no
\* to either ends the run with status cypher_generated
PipeCheckpoint ==
  /\ ppc = "checkpoint"
  /\ \E tty \in BOOLEAN : \E skip \in BOOLEAN : \E answer \in {"reject", "skip", "go"} :
       LET env == [pipe EXCEPT !.interactive = tty, !.skipConfirmation = skip]
       IN /\ ~Asks(tty, skip) => answer = "go"
          /\ IF answer = "go"
             THEN /\ ppc' = "ingest"
                  /\ pipe' = [env EXCEPT !.asked = IF Asks(tty, skip) THEN 2 ELSE 0]
                  /\ UNCHANGED <<doc, held, results, extra>>
             ELSE /\ results' = IF answer = "reject" THEN [u \in Units |-> NoResult]
                                ELSE results
                  /\ extra' = IF answer = "reject" THEN NoExtra ELSE extra
                  /\ doc' = [doc EXCEPT !.status = "cypher_generated"]
                  /\ held' = Append(held, "cypher_generated")
                  /\ pipe' = [env EXCEPT !.declined = TRUE, !.outcome = "success",
                                         !.rejected = answer = "reject",
                                         !.asked = IF answer = "reject" THEN 1 ELSE 2]
                  /\ ppc' = "done"
  /\ UNCHANGED <<chunks, schema, neoVars, callVars, allVars, parked, utilVars>>

\* step 6: await ingestAllChunks(docId)
PipeIngest ==
  /\ ppc = "ingest"
  /\ StartIngestAll
  /\ ppc' = "ingesting"
  /\ pipe' = StageStarts("ingest")
  /\ UNCHANGED <<calls, parked, utilVars>>

\* ingestAllChunks has ended: its throw goes to the catch block, its return
\* is followed by recordDocumentCompletion(docId, true) and the success result
PipeAfterIngest ==
  /\ ppc = "ingesting" /\ apc = "idle" /\ aret # "none"
  /\ IF aret = "throw"
     THEN /\ ppc' = "catch"
          /\ pipe' = [pipe EXCEPT !.failed = "ingest", !.failure = NoResultsError]
     ELSE /\ ppc' = "done"
          /\ pipe' = [pipe EXCEPT !.completion = "true", !.outcome = "success"]
  /\ UNCHANGED <<storeVars, neoVars, callVars, allVars, parked, utilVars>>

\* the catch block: status error with the message,
\* recordDocumentCompletion(docId, false), rethrow
PipeCatch ==
  /\ ppc = "catch"
  /\ doc' = [doc EXCEPT !.status = "error", !.error = pipe.failure]
  /\ held' = Append(held, "error")
  /\ pipe' = [pipe EXCEPT !.completion = "false", !.outcome = "throw"]
  /\ ppc' = "done"
  /\ UNCHANGED <<chunks, results, sideVars, neoVars, callVars, allVars, parked, utilVars>>

PipeNext ==
  \/ PipeStart \/ PipeParse \/ PipeChunk \/ PipeSchema \/ PipeConstraints
  \/ PipeGenerate \/ CallGenerate \/ PipeCheckpoint \/ PipeIngest \/ PipeAfterIngest
  \/ PipeCatch
  \/ IngestCall \/ Validate \/ SchemaRun \/ BeginTx \/ TxRun \/ Commit \/ Catch
  \/ UnitSucceeded \/ UnitRetry \/ UnitFailed \/ IngestAllFinish

PipeSpec == PipeInit /\ [][PipeNext]_vars

\* ==================================================== POST /:id/process
\* the stages at whose first await a run may wait while another run executes
AwaitPoints == {"parse", "schema", "generate"}

\* the route handler is called for a Document whose run is in flight: it
\* starts runPipeline with the default useFullDocument and does not wait for
\* it; the run in flight stays at its await
TriggerProcess ==
  /\ ppc \in AwaitPoints /\ parked = NoFrame
  /\ parked' = [ppc |-> ppc, pipe |-> pipe]
  /\ StartRun({TRUE})

\* the later run has ended and the waiting run goes on from its await
Resume ==
  /\ ppc = "done" /\ parked # NoFrame
  /\ pc = "idle" /\ apc = "idle"
  /\ ppc' = parked.ppc
  /\ pipe' = [parked.pipe EXCEPT !.run = pipe.run]
  /\ parked' = NoFrame
  /\ unit' = 0 /\ k' = 0 /\ counts' = ZeroCounts /\ err' = NoError /\ ret' = NoRet
  /\ log' = <<>> /\ graph0' = {} /\ prevRet' = [u \in Units |-> NoRet]
  /\ idx' = 0 /\ attempt' = 0 /\ snapshot' = <<>> /\ tally' = ZeroTally /\ order' = <<>>
  /\ unitErr' = [u \in Units |-> NoError] /\ aret' = "none"
  /\ tries' = [u \in Units |-> NoTries]
  /\ UNCHANGED <<storeVars, neoVars, pc, apc, calls, faults, utilVars>>

TriggerNext == PipeNext \/ TriggerProcess \/ Resume

TriggerSpec == PipeInit /\ [][TriggerNext]_vars

\* ============================================================ properties
\* the log and the locals belong to the call of the current unit
InCall == pc \in {"validate", "schema", "begin", "write", "commit", "catch", "ret"}
CallEnded == pc = "ret"

Events(op) == {i \in 1..Len(log) : log[i].op = op}
FailedEvents(op) == {i \in Events(op) : ~log[i].ok}

\* every statement of the unit passed EXPLAIN in the read session
AllExplained ==
  /\ Len(log) >= Len(statements)
  /\ \A i \in 1..Len(statements) :
       log[i] = Event("explain", "read", statements[i], TRUE)

\* the statements the call ran in the schema session, in order
RECURSIVE StmtsOf(_, _)
StmtsOf(l, op) ==
  IF l = <<>> THEN <<>>
  ELSE (IF Head(l).op = op THEN <<Head(l).stmt>> ELSE <<>>) \o StmtsOf(Tail(l), op)

\* ---------------------------------------------------------------- C1
\* C1: once a data-write statement run in the write transaction has failed,
\* the call runs no later data-write statement and never commits, the
\* committed graph is the graph the call started with, and when the call has
\* ended no transaction with pending writes is left.
C1_AllOrNothing ==
  InCall =>
    \A i \in FailedEvents("run") :
      /\ \A j \in Events("run") \cup Events("commit") : j <= i
      /\ Events("commit") = {}
      /\ graph = graph0
      /\ (CallEnded => tx = NoTx /\ ret.kind = "throw")

\* a call ended after a statement that created something and a later
\* statement that failed
C1_Witness ==
  /\ CallEnded /\ ret.kind = "throw"
  /\ \E i \in Events("run") : \E j \in FailedEvents("run") :
       i < j /\ log[i].ok /\ MergeEffect(log[i].stmt, graph) # {}

\* ---------------------------------------------------------------- C2
\* C2: when the ingestion of a rendered program returns after running it,
\* every constraint declaration was run as a schema statement, every
\* node-upsert and every edge-upsert was run in the write transaction, and
\* each edge-upsert ran after the node-upserts of its endpoints.
C2_WholeProgramExecuted ==
  (CallEnded /\ ret.kind = "return" /\ ~ret.cached
     /\ results[unit].generatedCypher \in RenderedPrograms) =>
    LET program == results[unit].generatedCypher
        ran(op, t, id) == {i \in Events(op) : \E x \in 1..Len(log[i].stmt) :
                              log[i].stmt[x] = Tok(t, id)}
    IN /\ \A c \in ConstraintsOf(program) : ran("schema", "cc", c) # {}
       /\ \A n \in NodesOf(program) : ran("run", "node", n) # {}
       /\ \A e \in EdgesOf(program) :
            /\ ran("run", "edge", e) # {}
            /\ \A n \in EndpointsOf(e) \cap NodesOf(program) :
                 \A i \in ran("run", "edge", e) : \E j \in ran("run", "node", n) : j <= i

\* ---------------------------------------------------------------- C3
\* C3: a call runs a schema statement, opens the write transaction or runs a
\* data-write statement only after every statement of the unit has passed
\* EXPLAIN in the read session; after a rejected EXPLAIN the call makes no
\* further driver call and ends by throwing.
C3_ValidateBeforeExecute ==
  InCall =>
    /\ (tx.open \/ \E i \in 1..Len(log) : log[i].op \in {"schema", "begin", "run", "commit"})
         => AllExplained
    /\ \A i \in 1..Len(log) : log[i].op \in {"schema", "begin", "run", "commit", "rollback"}
         => i > Len(statements)
    /\ \A i \in FailedEvents("explain") :
         /\ i = Len(log) /\ ~tx.open
         /\ pc = "ret" /\ ret.kind = "throw"

\* a call that threw at a rejected EXPLAIN after an accepted one
C3_Witness ==
  /\ CallEnded /\ ret.kind = "throw"
  /\ \E i \in FailedEvents("explain") : i > 1 /\ log[i - 1].ok

\* ---------------------------------------------------------------- C4
\* C4: in a call that passed validation, the statements run in the schema
\* session are a prefix of the unit's schema statements, in order, none of
\* them inside the write transaction; once the call opens the transaction or
\* ends, all of them have been attempted, whatever their outcomes, and a call
\* with data-write statements does open the transaction.
C4_SchemaStatementsIndependent ==
  (InCall /\ AllExplained /\ Len(statements) > 0) =>
    LET attempted == StmtsOf(log, "schema")
    IN /\ Len(attempted) <= Len(schemaStatements)
       /\ attempted = SubSeq(schemaStatements, 1, Len(attempted))
       /\ \A i \in Events("schema") :
            log[i].session = "schema" /\ \A j \in Events("begin") : i < j
       /\ (CallEnded \/ Events("begin") # {}) => attempted = schemaStatements
       /\ (CallEnded /\ Len(writeStatements) > 0) => Events("begin") # {}

\* a schema statement failed, a later one was attempted and the write
\* transaction was opened after both
C4_Witness ==
  /\ CallEnded
  /\ \E i \in FailedEvents("schema") : \E j \in Events("schema") : \E b \in Events("begin") :
       i < j /\ j < b

\* ---------------------------------------------------------------- C5
\* C5: when a call has ended after a failed data-write statement or a failed
\* commit, a rollback was attempted, the result (and the chunk in chunked
\* mode) has status error with the caught error, and the call threw that
\* same error, also when the rollback itself threw.
C5_RollbackAndPersist ==
  (CallEnded /\ FailedEvents("run") \cup FailedEvents("commit") # {}) =>
    /\ Events("rollback") # {}
    /\ err # NoError
    /\ ret.kind = "throw" /\ ret.error = err
    /\ results[unit].status = "error" /\ results[unit].error = err
    /\ unit > 0 => (chunks[unit].status = "error" /\ chunks[unit].error = err)

\* a call ended after a commit failed and the rollback threw another error
C5_Witness ==
  /\ CallEnded /\ FailedEvents("commit") # {} /\ FailedEvents("rollback") # {}
  /\ results[unit].status = "error"

\* ---------------------------------------------------------------- C6
\* C6: when an ingest call has returned normally, the unit's result has
\* status executed and carries the returned counts, and in chunked mode the
\* chunk has status ingested.
C6_ReturnMeansExecuted ==
  (CallEnded /\ ret.kind = "return") =>
    /\ results[unit].status = "executed"
    /\ results[unit].nodesCreated = ret.nodesCreated
    /\ results[unit].relationshipsCreated = ret.relationshipsCreated
    /\ unit > 0 => chunks[unit].status = "ingested"

\* ---------------------------------------------------------------- C7
\* C7 as stated: an ingest call of a unit whose previous ingest call
\* returned normally returns {0, 0} and leaves the graph and the recorded
\* counts as they were.
C7_SecondIngestReturnsZero ==
  (CallEnded /\ ret.kind = "return" /\ prevRet[unit].kind = "return") =>
    /\ ret.nodesCreated = 0 /\ ret.relationshipsCreated = 0
    /\ graph = graph0

\* C7 amended: an ingest call of a unit whose previous ingest call returned
\* normally runs no data-write statement, leaves the graph and the recorded
\* counts as they were, and returns the counts the previous call returned.
C7_SecondIngestReturnsRecorded ==
  (CallEnded /\ ret.kind = "return" /\ prevRet[unit].kind = "return") =>
    /\ ret.nodesCreated = prevRet[unit].nodesCreated
    /\ ret.relationshipsCreated = prevRet[unit].relationshipsCreated
    /\ results[unit].nodesCreated = prevRet[unit].nodesCreated
    /\ results[unit].relationshipsCreated = prevRet[unit].relationshipsCreated
    /\ Events("run") = {} /\ Events("commit") = {}
    /\ graph = graph0

\* the second call of a unit whose first call created nodes has returned
C7_Witness ==
  /\ CallEnded /\ ret.kind = "return" /\ prevRet[unit].kind = "return"
  /\ prevRet[unit].nodesCreated > 0 /\ calls = 2

\* ---------------------------------------------------------------- C8
\* what a unit's executed statements leave in the graph
PersistedBy(u) ==
  LET ws == writeStatementsOf(splitCypherStatements(results[u].generatedCypher))
  IN \A i \in 1..Len(ws) : MergeEffect(ws[i], graph) = {}

\* C8: when the chunk loop of ingestAllChunks has ended, every chunk was
\* submitted once, in ascending chunkIndex order; successCount counts the
\* chunks whose ingestion returned, errorCount those whose ingestion finally
\* threw, and they add up to the number of chunks; what an executed chunk
\* wrote is in the graph whatever happened to the other chunks.
C8_ChunksIndependent ==
  (apc = "final" /\ idx > 0) =>
    LET n == Len(snapshot)
    IN /\ order = [i \in 1..n |-> i]
       /\ tally.successCount = Cardinality({u \in 1..n : prevRet[u].kind = "return"})
       /\ tally.errorCount = Cardinality({u \in 1..n : prevRet[u].kind = "throw"})
       /\ tally.successCount + tally.errorCount = n
       /\ \A u \in 1..n : results[u].status = "executed" => PersistedBy(u)

\* the first chunk failed and a later chunk was executed and wrote the graph
C8_Witness ==
  /\ apc = "final" /\ idx > 1
  /\ prevRet[1].kind = "throw" /\ tally.errorCount >= 1
  /\ results[idx].status = "executed" /\ graph # {}

\* ---------------------------------------------------------------- C9
PipeDone == ppc = "done"

\* the ingest stage failed: ingestAllChunks ran and no unit was ingested
IngestStageFailed ==
  /\ Len(pipe.stages) > 0 /\ pipe.stages[Len(pipe.stages)] = "ingest"
  /\ (pipe.failed = "ingest" \/ (tally.successCount = 0 /\ tally.errorCount > 0))

\* C9: when a run has ended and one of its stages failed, the Document has
\* status error and its error field holds the message of that failure, and
\* the failed stage is the last stage the run started.
C9_StageFailureRecorded ==
  PipeDone =>
    /\ pipe.failed # "none" =>
         /\ doc.status = "error" /\ doc.error = pipe.failure
         /\ pipe.stages[Len(pipe.stages)] = pipe.failed
    /\ (IngestStageFailed /\ pipe.failed = "none") =>
         /\ doc.status = "error"
         /\ \E u \in Units : unitErr[u] # NoError /\ doc.error = unitErr[u]

\* ---------------------------------------------------------------- C10
\* C10: a run in which a stage failed ends by throwing; a run that returns
\* success, or records a successful completion, either left the Document
\* completed with at least one unit ingested or was declined at the
\* checkpoint.
C10_SuccessOnlyIfIngested ==
  PipeDone =>
    /\ (pipe.failed # "none" \/ IngestStageFailed) => pipe.outcome = "throw"
    /\ (pipe.outcome = "success" \/ pipe.completion = "true") =>
         \/ doc.status = "completed" /\ tally.successCount > 0
         \/ pipe.declined

\* ---------------------------------------------------------------- C11
\* the chain of Document states, in order
Chain ==
  <<"uploaded", "parsing", "parsed", "schema_extracting", "schema_extracted",
    "cypher_generating", "cypher_generated", "ingesting", "completed">>

Rank(s) == CHOOSE i \in 1..Len(Chain) : Chain[i] = s

\* a change of status from s to t is forward: t is error, or s is a state of
\* the chain other than completed and t is later in the chain, or s is error
\* (a failed Document that is submitted again)
Forward(s, t) ==
  \/ t = "error" /\ s # "completed"
  \/ s = "error"
  \/ s # "completed" /\ s # "error" /\ Rank(t) > Rank(s)

\* C11: every change of the Document's status, over any sequence of runs, is
\* a move forward in the chain or a move to error, and a completed Document
\* keeps its status.
C11_StatusOnlyForward == [][doc'.status # doc.status => Forward(doc.status, doc'.status)]_vars

\* ---------------------------------------------------------------- C12
\* the sequence a occurs in the sequence b from position i on, in order
RECURSIVE OccursInOrder(_, _, _)
OccursInOrder(a, b, i) ==
  IF a = <<>> THEN TRUE
  ELSE IF i > Len(b) THEN FALSE
  ELSE IF b[i] = Head(a) THEN OccursInOrder(Tail(a), b, i + 1)
  ELSE OccursInOrder(a, b, i + 1)

\* C12: a Document that is completed has held, in this order, parsing,
\* parsed, schema_extracting, schema_extracted, cypher_generating,
\* cypher_generated and ingesting.
C12_CompletedHeldEveryState ==
  doc.status = "completed" =>
    OccursInOrder(<<"parsing", "parsed", "schema_extracting", "schema_extracted",
                    "cypher_generating", "cypher_generated", "ingesting">>, held, 1)

\* ---------------------------------------------------------------- C13
\* the calls of op in the log of the current run
CallsOf(op) == {i \in 1..Len(pipe.ext) : pipe.ext[i].op = op}

\* C13: a Document has at most one Schema record: every call of the
\* schema-extraction model is made while the Document has no Schema record,
\* and no step changes a stored Schema record
C13_SchemaExtractedOnce ==
  /\ [](\A i \in CallsOf("schemaModel") : ~pipe.ext[i].stored)
  /\ [][schema.exists => schema' = schema]_vars

\* a second run has passed extractSchema on the Schema the first run stored
C13_Witness ==
  /\ pipe.run = 2 /\ ppc = "constraints"
  /\ schema.exists /\ ~schema.failed
  /\ CallsOf("schemaModel") = {}

\* ---------------------------------------------------------------- C14
\* C14: a run makes no parser call when the parsed text is already stored,
\* and no generation-model call for a unit whose result already exists
C14_StoredArtifactsReused ==
  \A i \in CallsOf("parser") \cup CallsOf("generationModel") : ~pipe.ext[i].stored

\* ---------------------------------------------------------------- C15
\* C15: every generation-model call, of a run or from outside, is made with
\* the Schema of the Document stored, and a generation call made without a
\* Schema throws without calling the model
C15_SchemaBeforeGeneration ==
  /\ \A i \in CallsOf("generationModel") : pipe.ext[i].schema
  /\ (pipe.direct.made /\ ~pipe.direct.schema) => (pipe.direct.threw /\ ~pipe.direct.called)

\* after a run whose schema extraction failed and stored nothing, generation
\* was called without a Schema and threw
C15_Witness ==
  /\ pipe.failed = "schema" /\ ~schema.exists
  /\ pipe.direct.made /\ ~pipe.direct.schema /\ pipe.direct.threw
  /\ CallsOf("generationModel") = {}

\* ---------------------------------------------------------------- C16
\* C16: after a no to the first question of the checkpoint the Document has
\* no ChunkCypherResult, the run has not invoked the ingestion and the graph
\* is as it was when the run started; a run that is not on a terminal, or
\* has SKIP_CYPHER_CONFIRMATION set, is asked nothing and is not ended at the
\* checkpoint
C16_RejectDeletesElseAutoApprove ==
  /\ pipe.rejected =>
       /\ \A u \in Units : ~results[u].exists
       /\ extra = NoExtra
       /\ \A i \in 1..Len(pipe.stages) : pipe.stages[i] # "ingest"
       /\ ppc = "done" /\ apc = "idle" /\ pc = "idle"
       /\ graph = pipe.graphStart
  /\ (~pipe.interactive \/ pipe.skipConfirmation) => (pipe.asked = 0 /\ ~pipe.declined)
  /\ (ppc = "ingest" /\ (~pipe.interactive \/ pipe.skipConfirmation)) => ENABLED PipeIngest

\* the second run of a Document whose first run wrote the graph was rejected
C16_Witness ==
  /\ pipe.run = 2 /\ pipe.rejected /\ pipe.asked = 1
  /\ pipe.graphStart # {}

\* ---------------------------------------------------------------- C18
\* the stored whole-document results of the Document
FullResults == (IF results[0].exists THEN 1 ELSE 0) + Len(extra.full)

C19_RefusedErrorEndsRetry ==
  \A u \in Units :
    tries[u].refused > 0 =>
      /\ tries[u].refused = 1
      /\ tries[u].invoked = tries[u].retryable + 1
      /\ tries[u].waited = tries[u].retryable
      /\ prevRet[u].kind = "throw" /\ unitErr[u] = prevRet[u].error
      /\ ~isRetryableError(unitErr[u])

\* the first throw of a unit was refused: one call, no delay
C19_Witness ==
  \E u \in Units :
    /\ tries[u].refused = 1 /\ tries[u].retryable = 0
    /\ tries[u].invoked = 1 /\ tries[u].waited = 0
    /\ unitErr[u] # NoError

\* ---------------------------------------------------------------- C20
\* retryWithBackoff gave up on unit u after retrying every throw
Exhausted(u) == unitErr[u] # NoError /\ tries[u].refused = 0

\* C20 as stated: with maxRetries 3 and only retryable throws the ingest
\* function is called exactly 3 times
C20_CallsEqualBound ==
  \A u \in Units : Exhausted(u) => tries[u].invoked = IngestMaxRetries

\* C20: with maxRetries N and only retryable throws the function is called
\* exactly N + 1 times, N delays are waited, and the error thrown to the
\* caller is the one the last call threw
C20_CallsEqualBoundPlusOne ==
  \A u \in Units :
    Exhausted(u) =>
      /\ tries[u].invoked = IngestMaxRetries + 1
      /\ tries[u].retryable = IngestMaxRetries + 1
      /\ tries[u].waited = IngestMaxRetries
      /\ prevRet[u].kind = "throw" /\ unitErr[u] = prevRet[u].error

\* a unit failed after four calls that all threw a retryable error
C20_Witness ==
  \E u \in Units : Exhausted(u) /\ tries[u].invoked = 4 /\ tries[u].retryable = 4

\* ---------------------------------------------------------------- C17
\* the status a run has last written when it is at stage p
OwnStatus(p) ==
  IF p = "parse" THEN "parsing"
  ELSE IF p \in {"checkpoint", "ingest"} THEN "cypher_generating" ELSE "parsed"

\* C17: one run at a time works on the Document: no run waits while another
\* executes, and a run at a stage finds the status that run last wrote
C17_OneRunAtATime ==
  /\ parked = NoFrame
  /\ ppc \in {"parse", "chunk", "schema", "constraints", "generate", "checkpoint", "ingest"}
       => doc.status = OwnStatus(ppc)

\* ======================================================= retryWithBackoff
\* the delay loop of retryWithBackoff for an operation whose throws are all
\* retried; delays are whole numbers of a time unit
Min(a, b) == IF a <= b THEN a ELSE b

RECURSIVE Pow(_, _)
Pow(b, e) == IF e = 0 THEN 1 ELSE b * Pow(b, e - 1)

\* the options of the call: { maxRetries, initialDelay, maxDelay,
\* backoffMultiplier }, then "let delay = initialDelay" and attempt = 0
NewBackoff(initialDelay, maxDelay, backoffMultiplier) ==
  [called |-> TRUE, maxRetries |-> IngestMaxRetries, initialDelay |-> initialDelay,
   maxDelay |-> maxDelay, backoffMultiplier |-> backoffMultiplier,
   attempt |-> 0, delay |-> initialDelay, waits |-> <<>>, ended |-> "no"]

\* "delay = Math.min(delay * backoffMultiplier, maxDelay)"
NextDelay(delay, backoffMultiplier, maxDelay) == Min(delay * backoffMultiplier, maxDelay)

BackoffInit ==
  /\ Uploaded /\ ck = NoChunker /\ fm = NoFormat
  /\ \E initialDelay \in 1..MaxDelay : \E maxDelay \in 1..MaxDelay :
       \E backoffMultiplier \in 1..MaxMultiplier :
         rs = NewBackoff(initialDelay, maxDelay, backoffMultiplier)

\* fn() threw an error that shouldRetry accepts: after the last attempt the
\* loop is left and lastError is thrown; otherwise the delay is waited and
\* then multiplied
BackoffThrow ==
  /\ rs.ended = "no"
  /\ IF LastAttempt(rs.attempt, rs.maxRetries)
     THEN rs' = [rs EXCEPT !.ended = "throw"]
     ELSE rs' = [rs EXCEPT !.waits = Append(@, rs.delay),
                           !.delay = NextDelay(rs.delay, rs.backoffMultiplier, rs.maxDelay),
                           !.attempt = @ + 1]
  /\ UNCHANGED <<storeVars, neoVars, callVars, allVars, ppc, pipe, parked, ck, fm>>

\* fn() returned, or threw an error that shouldRetry refuses
BackoffEnd ==
  /\ rs.ended = "no"
  /\ \E how \in {"return", "throw"} : rs' = [rs EXCEPT !.ended = how]
  /\ UNCHANGED <<storeVars, neoVars, callVars, allVars, ppc, pipe, parked, ck, fm>>

BackoffNext == BackoffThrow \/ BackoffEnd

BackoffSpec == BackoffInit /\ [][BackoffNext]_vars

\* ---------------------------------------------------------------- C21
\* C21: every delay retryWithBackoff has waited is at most maxDelay, and the
\* k-th delay is min(initialDelay * backoffMultiplier^(k-1), maxDelay)
C21_DelayCappedGeometric ==
  \A i \in 1..Len(rs.waits) :
    /\ rs.waits[i] <= rs.maxDelay
    /\ rs.waits[i] = Min(rs.initialDelay * Pow(rs.backoffMultiplier, i - 1), rs.maxDelay)

\* ---------------------------------------------------------------- C22
\* the ingest call ended with the error thrown for a statement that the
\* EXPLAIN validation rejected
FailedValidation(r) == r.kind = "throw" /\ "validation" \in r.error.words

\* C22: retryWithBackoff never calls the ingest function again for a unit
\* whose last call failed at validation
C22_ValidationNeverRetried ==
  ~(apc = "unit" /\ pc = "call" /\ attempt > 0 /\ FailedValidation(prevRet[unit]))

\* ---------------------------------------------------------------- C23
\* C23: when an ingest call has thrown the validation error, the result of
\* the unit has status error with that error and, for a chunk, so has the
\* chunk
C23_ValidationFailurePersisted ==
  (pc = "ret" /\ FailedValidation(ret)) =>
     /\ results[unit].status = "error" /\ results[unit].error = ret.error
     /\ unit > 0 => (chunks[unit].status = "error" /\ chunks[unit].error = ret.error)

\* ============================================================== chunkText
\* a text is a sequence of characters, each a letter or a white-space
\* character; both are drawn from one-character alphabets
Letter == "a"
Space == " "

Texts == UNION {[1..n -> {Letter, Space}] : n \in 0..MaxText}

\* "text.trim().length === 0"
IsBlank(text) == \A i \in 1..Len(text) : text[i] = Space

\* text.split(/\s+/) from character i on: a run of white space ends the
\* current piece, so white space at either end of the text gives an empty piece
RECURSIVE SplitFrom(_, _, _, _)
SplitFrom(text, i, current, pieces) ==
  IF i > Len(text) THEN Append(pieces, current)
  ELSE IF text[i] = Space
       THEN IF i > 1 /\ text[i - 1] = Space
            THEN SplitFrom(text, i + 1, current, pieces)
            ELSE SplitFrom(text, i + 1, <<>>, Append(pieces, current))
       ELSE SplitFrom(text, i + 1, Append(current, text[i]), pieces)

Split(text) == SplitFrom(text, 1, <<>>, <<>>)

\* Array.prototype.slice(start, end): a negative index counts from the end
SliceIndex(index, len) ==
  IF index < 0 THEN (IF len + index < 0 THEN 0 ELSE len + index) ELSE Min(index, len)

Slice(arr, start, end) ==
  SubSeq(arr, SliceIndex(start, Len(arr)) + 1, SliceIndex(end, Len(arr)))

\* Array.prototype.join(' ')
RECURSIVE Join(_)
Join(pieces) ==
  IF Len(pieces) = 0 THEN <<>>
  ELSE IF Len(pieces) = 1 THEN pieces[1]
  ELSE pieces[1] \o <<Space>> \o Join(Tail(pieces))

\* "const endIdx = Math.min(startIdx + chunkSizeWords, words.length)"
EndIdx(startIdx, chunkSizeWords, len) == Min(startIdx + chunkSizeWords, len)

\* "startIdx += chunkSizeWords - overlapWords" with the sign of the overlap
\* turned
NextStart_AddsOverlap(startIdx, chunkSizeWords, overlapWords) ==
  startIdx + chunkSizeWords + overlapWords

\* "startIdx += chunkSizeWords - overlapWords"
NextStart(startIdx, chunkSizeWords, overlapWords) ==
  startIdx + chunkSizeWords - overlapWords

\* the call chunkText(text, chunkSizeWords, overlapWords) before its first line
NewChunker(text, chunkSizeWords, overlapWords) ==
  [called |-> TRUE, text |-> text, chunkSizeWords |-> chunkSizeWords,
   overlapWords |-> overlapWords, words |-> <<>>, startIdx |-> 0, chunkIndex |-> 0,
   chunks |-> <<>>, windows |-> <<>>, pc |-> "entry"]

ChunkInit ==
  /\ Uploaded /\ rs = NoBackoff /\ fm = NoFormat
  /\ \E text \in Texts : \E chunkSizeWords \in 1..MaxChunkSize :
       \E overlapWords \in 0..MaxOverlap :
         ck = NewChunker(text, chunkSizeWords, overlapWords)

\* the lines before the loop: a blank text gives no chunk, a text of at most
\* chunkSizeWords pieces gives one chunk holding the text itself
ChunkEnter ==
  /\ ck.pc = "entry"
  /\ LET words == Split(ck.text) IN
       IF Len(ck.text) = 0 \/ IsBlank(ck.text)
       THEN ck' = [ck EXCEPT !.pc = "returned"]
       ELSE IF Len(words) <= ck.chunkSizeWords
       THEN ck' = [ck EXCEPT !.words = words, !.pc = "returned",
                             !.chunks = <<[text |-> ck.text, startIndex |-> 0,
                                           endIndex |-> Len(ck.text),
                                           wordCount |-> Len(words),
                                           chunkIndex |-> 0]>>]
       ELSE ck' = [ck EXCEPT !.words = words, !.pc = "loop"]
  /\ UNCHANGED <<storeVars, neoVars, callVars, allVars, ppc, pipe, parked, rs, fm>>

\* one pass of "while (startIdx < words.length)": the chunk of the window is
\* pushed, startIdx is moved, and the loop is left when startIdx has reached
\* the end; windows keeps the startIdx and endIdx of each pass
ChunkLoop ==
  /\ ck.pc = "loop"
  /\ ck.startIdx < Len(ck.words)
  /\ Len(ck.chunks) < MaxPasses
  /\ LET endIdx == EndIdx(ck.startIdx, ck.chunkSizeWords, Len(ck.words))
         chunkWords == Slice(ck.words, ck.startIdx, endIdx)
         chunkText == Join(chunkWords)
         textBeforeChunk == Join(Slice(ck.words, 0, ck.startIdx))
         textStart == Len(textBeforeChunk) + (IF Len(textBeforeChunk) > 0 THEN 1 ELSE 0)
         startIdx == NextStart(ck.startIdx, ck.chunkSizeWords, ck.overlapWords)
     IN ck' = [ck EXCEPT !.chunks = Append(@, [text |-> chunkText, startIndex |-> textStart,
                                               endIndex |-> textStart + Len(chunkText),
                                               wordCount |-> Len(chunkWords),
                                               chunkIndex |-> ck.chunkIndex]),
                         !.windows = Append(@, <<ck.startIdx, endIdx>>),
                         !.chunkIndex = @ + 1,
                         !.startIdx = startIdx,
                         !.pc = IF startIdx >= Len(ck.words) THEN "returned" ELSE "loop"]
  /\ UNCHANGED <<storeVars, neoVars, callVars, allVars, ppc, pipe, parked, rs, fm>>

ChunkNext == ChunkEnter \/ ChunkLoop

ChunkSpec == ChunkInit /\ [][ChunkNext]_vars

\* the words of a text: its pieces that are not empty
WordCount(text) == Cardinality({i \in 1..Len(Split(text)) : Len(Split(text)[i]) > 0})

\* ---------------------------------------------------------------- C24
\* C24: for a text that is not blank and has fewer words than chunkSizeWords,
\* chunkText returns one chunk, with chunkIndex 0 and the text of the input
C24_ShortTextOneChunk ==
  (/\ ck.called /\ ck.pc = "returned" /\ ~IsBlank(ck.text)
   /\ WordCount(ck.text) < ck.chunkSizeWords)
    => /\ Len(ck.chunks) = 1
       /\ ck.chunks[1].chunkIndex = 0
       /\ ck.chunks[1].text = ck.text

\* ---------------------------------------------------------------- C25
\* C25: for a text of more words than chunkSizeWords and an overlap below
\* chunkSizeWords, the windows of the returned chunks cover the words with no
\* gap: the first starts at word 0, each next one starts no later than the
\* word after the end of the one before, and the last ends at the last word
C25_WindowsCoverWords ==
  (/\ ck.called /\ ck.pc = "returned"
   /\ WordCount(ck.text) > ck.chunkSizeWords
   /\ ck.overlapWords < ck.chunkSizeWords)
    => /\ Len(ck.windows) = Len(ck.chunks) /\ Len(ck.windows) > 0
       /\ ck.windows[1][1] = 0
       /\ \A i \in 1..(Len(ck.windows) - 1) :
            /\ ck.windows[i + 1][1] <= ck.windows[i][2]
            /\ ck.windows[i + 1][1] >= 0
       /\ ck.windows[Len(ck.windows)][2] = Len(ck.words)
       /\ \A i \in 1..Len(ck.chunks) :
            ck.chunks[i].text = Join(SubSeq(ck.words, ck.windows[i][1] + 1, ck.windows[i][2]))

\* a text of more words than the window, cut with an overlap, returned in
\* more than one chunk
C25_Witness ==
  /\ ck.called /\ ck.pc = "returned"
  /\ WordCount(ck.text) > ck.chunkSizeWords
  /\ ck.overlapWords > 0 /\ ck.overlapWords < ck.chunkSizeWords
  /\ Len(ck.chunks) >= 2

\* ---------------------------------------------------------------- C26
\* C26: the window start advances by at least one word from each chunk to
\* the next, whatever the overlap
C26_WindowAdvances ==
  \A i \in 1..(Len(ck.windows) - 1) : ck.windows[i + 1][1] > ck.windows[i][1]

\* ================================================= formatStructuredCypher
\* The statement text the formatter reads and writes, statement by
\* statement: a program is a sequence of node statements
\* "MERGE (var:Label {labelId: "id"})" and relationship statements
\* "MERGE (from)-[:TYPE]->(to)".  Variable names and the text between the
\* parentheses of a relationship are sequences of characters, so that
\* String.includes and the regular expressions are what they are in the code.
\* A formatted program has the three sections and the constraint lines of
\* the labels in cons.
Digits == <<"0", "1", "2", "3", "4", "5", "6", "7", "8", "9">>

\* the decimal digits of a counter
RECURSIVE NumChars(_)
NumChars(n) ==
  IF n < 10 THEN <<Digits[n + 1]>>
  ELSE NumChars(n \div 10) \o <<Digits[(n % 10) + 1]>>

\* the labels whose text the statements can hold
KnownLabels == {"Account", "Position", "Security", "Holding", "Trade", "Investment"}

\* the characters of a label after its first letter
LabelRest(label) ==
  CASE label = "Account" -> <<"c", "c", "o", "u", "n", "t">>
    [] label = "Position" -> <<"o", "s", "i", "t", "i", "o", "n">>
    [] label = "Security" -> <<"e", "c", "u", "r", "i", "t", "y">>
    [] label = "Holding" -> <<"o", "l", "d", "i", "n", "g">>
    [] label = "Trade" -> <<"r", "a", "d", "e">>
    [] label = "Investment" -> <<"n", "v", "e", "s", "t", "m", "e", "n", "t">>

UpperFirst(label) ==
  CASE label = "Account" -> "A" [] label = "Position" -> "P"
    [] label = "Security" -> "S" [] label = "Holding" -> "H" [] label = "Trade" -> "T"
    [] label = "Investment" -> "I"

\* label.toLowerCase().charAt(0)
LowerFirst(label) ==
  CASE label = "Account" -> "a" [] label = "Position" -> "p"
    [] label = "Security" -> "s" [] label = "Holding" -> "h" [] label = "Trade" -> "t"
    [] label = "Investment" -> "i"

LabelText(label) == <<UpperFirst(label)>> \o LabelRest(label)

\* the id property of a label: accountId, positionId, ...
IdPropText(label) == <<LowerFirst(label)>> \o LabelRest(label) \o <<"I", "d">>

\* the text of an inline node: {labelId: "id"}
InlineText(label, id) ==
  <<"{">> \o IdPropText(label) \o <<":", " ", "\"", id, "\"", "}">>

\* the text of an endpoint that carries its label: var:Label
LabelledText(var, label) == var \o <<":">> \o LabelText(label)

\* String.prototype.includes
Includes(text, part) ==
  \E i \in 0..(Len(text) - Len(part)) : SubSeq(text, i + 1, i + Len(part)) = part

\* the labels and ids the statements of a program are drawn from
NodeLabels == KnownLabels \ {"Trade", "Investment"}
Ids == {Digits[i + 1] : i \in 1..MaxIds}
InputVars == {<<"a">>, <<"p">>}
RelTypes == {"HAS_POSITION", "HELD_IN_POSITION", "HELD_IN_HOLDING"}

NodeStmt(var, label, id) == [k |-> "node", var |-> var, label |-> label, id |-> id]
RelStmt(from, type, to) == [k |-> "rel", from |-> from, type |-> type, to |-> to]

\* /\{(\w+Id|id|_id|uuid):\s*["']([^"']+)["']\}/ on the text of an endpoint:
\* the label and the id of the inline node the text holds, if it holds one
InlineMatches(text) ==
  {m \in [label : KnownLabels, id : Ids] : text = InlineText(m.label, m.id)}

\* /(\w+):Label[^)]*/ on the text of an endpoint: the variable in front of
\* the label
LabelledMatches(text, label) ==
  {i \in 1..Len(text) :
     /\ text[i] = ":"
     /\ \A j \in 1..(i - 1) : text[j] \notin {":", "{", " "}
     /\ i > 1
     /\ Len(text) >= i + Len(LabelText(label))
     /\ SubSeq(text, i + 1, i + Len(LabelText(label))) = LabelText(label)}

IsLabelled(text, label) == LabelledMatches(text, label) # {}
VarOfLabelled(text, label) ==
  SubSeq(text, 1, (CHOOSE i \in LabelledMatches(text, label) : TRUE) - 1)

Program(sections, cons, items) == [sections |-> sections, cons |-> cons, items |-> items]

\* parseCypher: the node statements and the relationship statements of the
\* text, each in text order; the key of a node is "Label:idValue"
parseCypher(prog) ==
  [nodes |-> SelectSeq(prog.items, LAMBDA st : st.k = "node"),
   relationships |-> SelectSeq(prog.items, LAMBDA st : st.k = "rel")]

KeyText(node) == LabelText(node.label) \o <<":", node.id>>

\* the prefix generateSequentialVariables gives the variables of a label
VarPrefix(label) ==
  CASE label = "Account" -> <<"a", "c", "c", "o", "u", "n", "t">>
    [] label = "Position" -> <<"p", "o", "s">>
    [] label = "Investment" -> <<"i", "n", "v">>
    [] OTHER -> <<LowerFirst(label)>>

LastWith(nds, var) == CHOOSE i \in 1..Len(nds) :
  /\ nds[i].var = var
  /\ \A j \in (i + 1)..Len(nds) : nds[j].var # var

\* generateSequentialVariables: the counter is raised for every parsed node,
\* and a later node with the same original variable replaces the entry
generateSequentialVariables(nds) ==
  [var \in {nds[i].var : i \in 1..Len(nds)} |->
     VarPrefix(nds[LastWith(nds, var)].label) \o NumChars(LastWith(nds, var))]

\* String.prototype.toLowerCase over the capitals the property names hold
LowerChar(c) ==
  CASE c = "A" -> "a" [] c = "I" -> "i" [] c = "T" -> "t" [] OTHER -> c

ToLower(text) == [i \in 1..Len(text) |-> LowerChar(text[i])]

LabelLower(label) == <<LowerFirst(label)>> \o LabelRest(label)

\* new RegExp(`^${labelLower}id$|^${labelLower}_id$`, 'i') on the lowered
\* property
IsTrueId(label, prop) ==
  ToLower(prop) \in {LabelLower(label) \o <<"i", "d">>, LabelLower(label) \o <<"_", "i", "d">>}

\* /^(id|_id|uuid)$/ on the lowered property
IsGenericId(prop) ==
  ToLower(prop) \in {<<"i", "d">>, <<"_", "i", "d">>, <<"u", "u", "i", "d">>}

\* the id properties of a label of the schema: the true ids, or without
\* any the generic ones
IdPropsOf(label, props) ==
  LET trueIdProps == SelectSeq(props, LAMBDA prop : IsTrueId(label, prop))
  IN IF Len(trueIdProps) > 0 THEN trueIdProps
     ELSE SelectSeq(props, IsGenericId)

\* a constraint declaration: FOR (v:Label) REQUIRE v.property IS UNIQUE
Constraint(label, property) == [label |-> label, property |-> property]

\* "for (const idProp of idProps)": one declaration for each id property,
\* on the property with its first letter lowered
LabelConstraints(entry) ==
  LET idProps == IdPropsOf(entry.label, entry.props)
  IN [i \in 1..Len(idProps) |->
        Constraint(entry.label, <<LowerChar(idProps[i][1])>> \o Tail(idProps[i]))]

\* generateConstraints: the declarations for the labels of schema.nodes, in
\* the order of the schema
RECURSIVE generateConstraints(_)
generateConstraints(sch) ==
  IF Len(sch) = 0 THEN <<>>
  ELSE LabelConstraints(Head(sch)) \o generateConstraints(Tail(sch))

\* generateConstraintsFromNodes: one declaration for each label of the
\* nodes, in order of first appearance, on the id property of its nodes
RECURSIVE generateConstraintsFromNodes(_)
generateConstraintsFromNodes(nds) ==
  IF Len(nds) = 0 THEN <<>>
  ELSE LET before == generateConstraintsFromNodes(SubSeq(nds, 1, Len(nds) - 1))
           label == nds[Len(nds)].label
       IN IF \E i \in 1..Len(before) : before[i].label = label THEN before
          ELSE Append(before, Constraint(label, IdPropText(label)))

\* the nodes section: one statement for each key, under the variable
\* varMap holds for the original variable of the first node with that key
RECURSIVE NodesSection(_, _)
NodesSection(nds, varMap) ==
  IF Len(nds) = 0 THEN <<>>
  ELSE LET before == SubSeq(nds, 1, Len(nds) - 1)
           node == nds[Len(nds)]
       IN IF \E i \in 1..Len(before) : KeyText(before[i]) = KeyText(node)
          THEN NodesSection(before, varMap)
          ELSE Append(NodesSection(before, varMap),
                      NodeStmt(varMap[node.var], node.label, node.id))

\* the variable a relationship endpoint is written with: the entry of the
\* node found by variable or by key, else of the first node whose variable
\* the text includes, else the text as it is
MapEndpoint(text, nds, varMap) ==
  LET byVar == {i \in 1..Len(nds) : nds[i].var = text \/ KeyText(nds[i]) = text}
      byIncludes == {i \in 1..Len(nds) : Includes(text, nds[i].var)}
  IN IF byVar # {}
     THEN varMap[nds[CHOOSE i \in byVar : \A j \in byVar : j <= i].var]
     ELSE IF byIncludes # {}
     THEN varMap[nds[CHOOSE i \in byIncludes : \A j \in byIncludes : i <= j].var]
     ELSE text

\* varToLabelMap.get: the label of the last node whose variable is mapped to
\* the name, "" when there is none
LabelOfMapped(name, nds, varMap) ==
  LET hits == {i \in 1..Len(nds) : varMap[nds[i].var] = name}
  IN IF hits = {} THEN "" ELSE nds[CHOOSE i \in hits : \A j \in hits : j <= i].label

\* the rules without the case of a relationship that starts at a Security
FixedRel_NoSecurityFirst(from, type, to, fl, tl) ==
  IF type = "HAS_ACCOUNT" /\ fl = "Account" /\ tl = "Party" THEN RelStmt(to, type, from)
  ELSE IF type = "EXECUTED_TRADE" /\ fl = "Trade" /\ tl = "Account" THEN RelStmt(to, type, from)
  ELSE IF type \in {"HELD_IN_POSITION", "HELD_IN_HOLDING"} /\ tl = "Security"
       THEN RelStmt(from, "IN_SECURITY", to)
  ELSE IF type = "MADE_INVESTMENT" THEN RelStmt(from, "HAS_INVESTMENT", to)
  ELSE RelStmt(from, type, to)

\* the direction and type rules for one relationship whose endpoints are
\* labelled fl and tl: what the statement is written as
FixedRel(from, type, to, fl, tl) ==
  IF type = "HAS_ACCOUNT" /\ fl = "Account" /\ tl = "Party" THEN RelStmt(to, type, from)
  ELSE IF type = "EXECUTED_TRADE" /\ fl = "Trade" /\ tl = "Account" THEN RelStmt(to, type, from)
  ELSE IF type \in {"HELD_IN_POSITION", "HELD_IN_HOLDING"} /\ fl = "Security"
       THEN RelStmt(to, "IN_SECURITY", from)
  ELSE IF type \in {"HELD_IN_POSITION", "HELD_IN_HOLDING"} /\ tl = "Security"
       THEN RelStmt(from, "IN_SECURITY", to)
  ELSE IF type = "MADE_INVESTMENT" THEN RelStmt(from, "HAS_INVESTMENT", to)
  ELSE RelStmt(from, type, to)

\* the state of the relationship loop before its first pass: nothing
\* written, nodeCounter after the nodes section
NewRelLoop(nodeCounter) ==
  [seen |-> {}, items |-> <<>>, nodeCounter |-> nodeCounter,
   investmentSecurityLinks |-> {}, tradeAccountLinks |-> {}, tradeSecurityLinks |-> {}]

\* one pass of "for (const rel of relationships)"
RelPass(rel, nds, varMap, loop) ==
  LET fromVar == MapEndpoint(rel.from, nds, varMap)
      toVar == MapEndpoint(rel.to, nds, varMap)
      fl == LabelOfMapped(fromVar, nds, varMap)
      tl == LabelOfMapped(toVar, nds, varMap)
      final == FixedRel(fromVar, rel.type, toVar, fl, tl)
      tracked ==
        [loop EXCEPT
           !.investmentSecurityLinks =
              IF rel.type = "IN_SECURITY" /\ fl = "Investment" /\ tl = "Security"
              THEN @ \cup {fromVar} ELSE @,
           !.tradeAccountLinks =
              IF rel.type = "EXECUTED_TRADE" /\ fl = "Account" /\ tl = "Trade"
              THEN @ \cup {final.to} ELSE @,
           !.tradeSecurityLinks =
              IF rel.type = "ON_SECURITY" /\ fl = "Trade" /\ tl = "Security"
              THEN @ \cup {final.from} ELSE @]
      relKey == <<final.from, final.type, final.to>>
      inline == InlineMatches(final.to)
  IN IF relKey \in loop.seen THEN tracked
     ELSE IF inline # {}
     THEN LET m == CHOOSE m \in inline : TRUE
              newVarName == <<LowerFirst(m.label)>> \o NumChars(loop.nodeCounter)
          IN [tracked EXCEPT
                !.seen = @ \cup {relKey},
                !.items = @ \o <<NodeStmt(newVarName, m.label, m.id),
                                 RelStmt(final.from, final.type, newVarName)>>,
                !.nodeCounter = @ + 1]
     ELSE [tracked EXCEPT !.seen = @ \cup {relKey}, !.items = Append(@, final)]

RECURSIVE RelLoop(_, _, _, _)
RelLoop(rels, nds, varMap, loop) ==
  IF Len(rels) = 0 THEN loop
  ELSE RelLoop(Tail(rels), nds, varMap, RelPass(Head(rels), nds, varMap, loop))

\* a relationship the formatter adds when it is not yet written
AddLink(loop, from, type, to) ==
  IF <<from, type, to>> \in loop.seen THEN loop
  ELSE [loop EXCEPT !.seen = @ \cup {<<from, type, to>>},
                    !.items = Append(@, RelStmt(from, type, to))]

WithLabel(nds, label) == SelectSeq(nds, LAMBDA node : node.label = label)

\* "Add missing Investment -> Security links"
RECURSIVE InvestmentLinks(_, _, _, _)
InvestmentLinks(investmentNodes, securityNodes, varMap, loop) ==
  IF Len(investmentNodes) = 0 \/ Len(securityNodes) = 0 THEN loop
  ELSE LET invVar == varMap[Head(investmentNodes).var]
           next == IF invVar \in loop.investmentSecurityLinks THEN loop
                   ELSE AddLink(loop, invVar, "IN_SECURITY", varMap[securityNodes[1].var])
       IN InvestmentLinks(Tail(investmentNodes), securityNodes, varMap, next)

\* "Add missing Trade links"
RECURSIVE TradeLinks(_, _, _, _, _)
TradeLinks(tradeNodes, accountNodes, securityNodes, varMap, loop) ==
  IF Len(tradeNodes) = 0 THEN loop
  ELSE LET tradeVar == varMap[Head(tradeNodes).var]
           withAccount ==
             IF Len(accountNodes) > 0 /\ tradeVar \notin loop.tradeAccountLinks
             THEN AddLink(loop, varMap[accountNodes[1].var], "EXECUTED_TRADE", tradeVar)
             ELSE loop
           withSecurity ==
             IF Len(securityNodes) > 0 /\ tradeVar \notin loop.tradeSecurityLinks
             THEN AddLink(withAccount, tradeVar, "ON_SECURITY", varMap[securityNodes[1].var])
             ELSE withAccount
       IN TradeLinks(Tail(tradeNodes), accountNodes, securityNodes, varMap, withSecurity)

\* the relationship loop of formatStructuredCypher over the relationships of
\* the text, after the nodes section
WrittenRels(rawCypher) ==
  LET nds == parseCypher(rawCypher).nodes
      varMap == generateSequentialVariables(nds)
  IN RelLoop(parseCypher(rawCypher).relationships, nds, varMap,
             NewRelLoop(Len(NodesSection(nds, varMap)) + 1))

\* the two passes that add missing links, after the relationship loop
CompletedRels(rawCypher) ==
  LET nds == parseCypher(rawCypher).nodes
      varMap == generateSequentialVariables(nds)
  IN TradeLinks(WithLabel(nds, "Trade"), WithLabel(nds, "Account"),
                WithLabel(nds, "Security"), varMap,
                InvestmentLinks(WithLabel(nds, "Investment"), WithLabel(nds, "Security"),
                                varMap, WrittenRels(rawCypher)))

\* formatStructuredCypher(rawCypher, schema): the text itself when it holds
\* no node statement, else the constraints, the nodes section and the
\* relationships section
FormatCypher(rawCypher, sch) ==
  LET nds == parseCypher(rawCypher).nodes
  IN IF Len(nds) = 0 THEN rawCypher
     ELSE LET cons == IF Len(generateConstraints(sch)) = 0
                      THEN generateConstraintsFromNodes(nds)
                      ELSE generateConstraints(sch)
              section == NodesSection(nds, generateSequentialVariables(nds))
          IN Program(TRUE, cons, section \o CompletedRels(rawCypher).items)

\* Fix 5 of fixCypherSyntax for one statement: a relationship to an inline
\* node becomes a node statement under the first letter of the inferred
\* label, followed by the relationship to that variable
FixInline(st) ==
  IF st.k = "rel" /\ InlineMatches(st.to) # {}
  THEN LET m == CHOOSE m \in InlineMatches(st.to) : TRUE
       IN <<NodeStmt(<<LowerFirst(m.label)>>, m.label, m.id),
            RelStmt(st.from, st.type, <<LowerFirst(m.label)>>)>>
  ELSE <<st>>

\* Fix 7 of fixCypherSyntax for one statement: the rules match endpoints
\* that carry their labels, and write the variables bare
FixDirection(st) ==
  IF st.k # "rel" THEN <<st>>
  ELSE LET L(text, label) == IsLabelled(text, label)
           V(text, label) == VarOfLabelled(text, label)
       IN IF st.type = "HAS_POSITION" /\ L(st.from, "Position") /\ L(st.to, "Account")
          THEN <<RelStmt(V(st.to, "Account"), "HAS_POSITION", V(st.from, "Position"))>>
          ELSE IF st.type = "HELD_IN_POSITION" /\ L(st.from, "Security") /\ L(st.to, "Position")
          THEN <<RelStmt(V(st.to, "Position"), "IN_SECURITY", V(st.from, "Security"))>>
          ELSE IF st.type = "HELD_IN_POSITION" /\ L(st.from, "Position") /\ L(st.to, "Security")
          THEN <<RelStmt(V(st.from, "Position"), "IN_SECURITY", V(st.to, "Security"))>>
          ELSE IF st.type = "HELD_IN_HOLDING" /\ L(st.from, "Security") /\ L(st.to, "Holding")
          THEN <<RelStmt(V(st.to, "Holding"), "IN_SECURITY", V(st.from, "Security"))>>
          ELSE IF st.type = "HELD_IN_HOLDING" /\ L(st.from, "Holding") /\ L(st.to, "Security")
          THEN <<RelStmt(V(st.from, "Holding"), "IN_SECURITY", V(st.to, "Security"))>>
          ELSE IF st.type = "EXECUTED_TRADE" /\ L(st.from, "Trade") /\ L(st.to, "Account")
          THEN <<RelStmt(V(st.to, "Account"), "EXECUTED_TRADE", V(st.from, "Trade"))>>
          ELSE <<st>>

RECURSIVE FlatMap(_, _)
FlatMap(F(_), items) ==
  IF Len(items) = 0 THEN <<>> ELSE F(Head(items)) \o FlatMap(F, Tail(items))

\* fixCypherSyntax on a program of node and relationship statements
fixCypherSyntax(cypher) ==
  [cypher EXCEPT !.items = FlatMap(FixDirection, FlatMap(FixInline, cypher.items))]

\* the programs the formatter is given: node statements, then relationship
\* statements between variables, labelled variables and an inline node
NodeStmts == {NodeStmt(var, label, id) : var \in InputVars, label \in NodeLabels, id \in Ids}

FromTexts == InputVars \cup {LabelledText(<<"p">>, "Position")}
ToTexts == InputVars \cup {LabelledText(<<"a">>, "Account"), InlineText("Security", Digits[2])}

RelStmts == {RelStmt(from, type, to) : from \in FromTexts, type \in RelTypes, to \in ToTexts}

\* the programs about trades: two Accounts, a Trade, a Security and an
\* Investment under variables of their own, and the relationships of the
\* types the added links have
TradeNodeStmts ==
  {NodeStmt(<<"a">>, "Account", Digits[2]), NodeStmt(<<"p">>, "Account", Digits[3]),
   NodeStmt(<<"t">>, "Trade", Digits[2]), NodeStmt(<<"s">>, "Security", Digits[2]),
   NodeStmt(<<"i">>, "Investment", Digits[2])}

TradeRelStmts ==
  {RelStmt(<<"t">>, "EXECUTED_TRADE", <<"a">>), RelStmt(<<"t">>, "EXECUTED_TRADE", <<"p">>),
   RelStmt(<<"a">>, "EXECUTED_TRADE", <<"t">>), RelStmt(<<"p">>, "EXECUTED_TRADE", <<"t">>),
   RelStmt(<<"t">>, "ON_SECURITY", <<"s">>), RelStmt(<<"i">>, "IN_SECURITY", <<"s">>)}

StatementTexts ==
  {Program(FALSE, <<>>, nodeList \o relList) :
     nodeList \in UNION {[1..n -> NodeStmts] : n \in 0..MaxNodeStmts},
     relList \in UNION {[1..n -> RelStmts] : n \in 0..MaxRelStmts}}
  \cup
  {Program(FALSE, <<>>, nodeList \o relList) :
     nodeList \in UNION {[1..n -> TradeNodeStmts] : n \in 0..(MaxNodeStmts + 1)},
     relList \in UNION {[1..n -> TradeRelStmts] : n \in 0..MaxRelStmts}}

\* an entry of schema.nodes: a label and its property names
SchemaEntry(label, props) == [label |-> label, props |-> props]

\* the schemas the formatter is given: one without labels, and one with
\* Account and its id
Schemas == {<<>>, <<SchemaEntry("Account", <<IdPropText("Account")>>)>>}

NoProgram == Program(FALSE, <<>>, <<>>)

NewFormat(rawCypher, sch) ==
  [called |-> TRUE, sch |-> sch, raw |-> rawCypher, cypher |-> rawCypher, fixed |-> FALSE,
   out |-> NoProgram, again |-> NoProgram, pc |-> "extracted"]

FormatInit ==
  /\ Uploaded /\ rs = NoBackoff /\ ck = NoChunker
  /\ \E rawCypher \in StatementTexts : \E sch \in Schemas : fm = NewFormat(rawCypher, sch)

\* "cypher = fixCypherSyntax(cypher)" on the extracted text
FixSyntax ==
  /\ fm.pc = "extracted" /\ ~fm.fixed
  /\ fm' = [fm EXCEPT !.cypher = fixCypherSyntax(fm.cypher), !.fixed = TRUE]
  /\ UNCHANGED <<storeVars, neoVars, callVars, allVars, ppc, pipe, parked, rs, ck>>

\* formatStructuredCypher(cypher, schema)
Format ==
  /\ fm.pc = "extracted"
  /\ fm' = [fm EXCEPT !.out = FormatCypher(fm.cypher, fm.sch), !.pc = "formatted"]
  /\ UNCHANGED <<storeVars, neoVars, callVars, allVars, ppc, pipe, parked, rs, ck>>

\* formatStructuredCypher on a text it has returned, as runPipeline does
\* with the stored result of a chunk
FormatAgain ==
  /\ fm.pc = "formatted"
  /\ fm' = [fm EXCEPT !.again = FormatCypher(fm.out, fm.sch), !.pc = "again"]
  /\ UNCHANGED <<storeVars, neoVars, callVars, allVars, ppc, pipe, parked, rs, ck>>

FormatNext == FixSyntax \/ Format \/ FormatAgain

FormatSpec == FormatInit /\ [][FormatNext]_vars

\* ------------------------------------------------------ generateConstraints
\* the property names of the schemas: accountId, account_id, AccountId, id,
\* uuid, accountType and the foreign key tradeId
AccountProps ==
  {IdPropText("Account"), LabelLower("Account") \o <<"_", "i", "d">>,
   LabelText("Account") \o <<"I", "d">>, <<"i", "d">>, <<"u", "u", "i", "d">>,
   LabelLower("Account") \o <<"T", "y", "p", "e">>, IdPropText("Trade")}

TradeProps == {<<>>, <<IdPropText("Trade")>>, <<IdPropText("Account")>>}

\* schemas with Account, and with Account and Trade
ConstraintSchemas ==
  LET accounts == {<<SchemaEntry("Account", props)>> :
                     props \in UNION {[1..n -> AccountProps] : n \in 0..MaxProps}}
  IN accounts \cup {account \o <<SchemaEntry("Trade", props)>> :
                      account \in accounts, props \in TradeProps}

ConstraintInit ==
  /\ Uploaded /\ rs = NoBackoff /\ ck = NoChunker
  /\ \E sch \in ConstraintSchemas : fm = [NewFormat(NoProgram, sch) EXCEPT !.pc = "schema"]

\* "let constraintsSection = generateConstraints(schema)"
Constrain ==
  /\ fm.pc = "schema"
  /\ fm' = [fm EXCEPT !.out = Program(TRUE, generateConstraints(fm.sch), <<>>),
                      !.pc = "constrained"]
  /\ UNCHANGED <<storeVars, neoVars, callVars, allVars, ppc, pipe, parked, rs, ck>>

ConstraintNext == Constrain

ConstraintSpec == ConstraintInit /\ [][ConstraintNext]_vars

\* ---------------------------------------------------------------- C27
\* C27: formatting a text formatStructuredCypher has returned gives the same
\* text, statement by statement
C27_FormatIdempotent ==
  fm.pc = "again" => fm.again = fm.out

\* ---------------------------------------------------------------- C28
\* the statements before position i of a program define the variable
DefinedBefore(prog, i, var) ==
  \E j \in 1..(i - 1) : prog.items[j].k = "node" /\ prog.items[j].var = var

\* C28: in a program formatStructuredCypher has returned, both endpoints of
\* every relationship statement are variables of node statements before it
C28_EndpointsDefined ==
  fm.pc \in {"formatted", "again"} =>
    \A i \in 1..Len(fm.out.items) :
      fm.out.items[i].k = "rel" =>
        /\ DefinedBefore(fm.out, i, fm.out.items[i].from)
        /\ DefinedBefore(fm.out, i, fm.out.items[i].to)

\* ---------------------------------------------------------------- C29
\* the node statements of a program that give the variable the label
Declares(prog, var, label) ==
  \E i \in 1..Len(prog.items) :
    prog.items[i].k = "node" /\ prog.items[i].var = var /\ prog.items[i].label = label

\* the program holds a relationship of the type from a variable of the one
\* label to a variable of the other
HasRel(prog, fl, type, tl) ==
  \E i \in 1..Len(prog.items) :
    /\ prog.items[i].k = "rel" /\ prog.items[i].type = type
    /\ Declares(prog, prog.items[i].from, fl)
    /\ Declares(prog, prog.items[i].to, tl)

\* the extracted text holds the relationship between the bare variables of a
\* node of the one label and another node of the other
BareRel(prog, fl, type, tl) ==
  \E i \in 1..Len(prog.items) :
    /\ prog.items[i].k = "rel" /\ prog.items[i].type = type
    /\ prog.items[i].from \in InputVars /\ prog.items[i].to \in InputVars
    /\ prog.items[i].from # prog.items[i].to
    /\ Declares(prog, prog.items[i].from, fl)
    /\ Declares(prog, prog.items[i].to, tl)

\* C29: when the extracted text declares a Position and an Account and holds
\* (position)-[:HAS_POSITION]->(account), the text after fixCypherSyntax and
\* formatStructuredCypher holds HAS_POSITION from the Account to the
\* Position and not from the Position to the Account
C29_HasPositionReversed ==
  (fm.pc = "formatted" /\ fm.fixed /\ BareRel(fm.raw, "Position", "HAS_POSITION", "Account"))
    => /\ HasRel(fm.out, "Account", "HAS_POSITION", "Position")
       /\ ~HasRel(fm.out, "Position", "HAS_POSITION", "Account")

\* ---------------------------------------------------------------- C30
\* every node statement of the program for the variable gives it the label
NodeOf(prog, var, label) ==
  /\ Declares(prog, var, label)
  /\ \A other \in KnownLabels \ {label} : ~Declares(prog, var, other)

\* the variable formatStructuredCypher writes for a variable of its input
WrittenFor(prog, var) == generateSequentialVariables(parseCypher(prog).nodes)[var]

HeldIn(label) == IF label = "Position" THEN "HELD_IN_POSITION" ELSE "HELD_IN_HOLDING"

\* the relationship statements (x)-[:HELD_IN_POSITION]->(y) and
\* (x)-[:HELD_IN_HOLDING]->(y) of the text given to formatStructuredCypher
\* whose x is a Security node and whose y is a Position or Holding node
HeldInRels(prog) ==
  {i \in 1..Len(prog.items) :
     /\ prog.items[i].k = "rel"
     /\ NodeOf(prog, prog.items[i].from, "Security")
     /\ \E label \in {"Position", "Holding"} :
          /\ NodeOf(prog, prog.items[i].to, label)
          /\ prog.items[i].type = HeldIn(label)}

\* C30: for a Security node x and a Position (or Holding) node y with
\* (x)-[:HELD_IN_POSITION]->(y) (or HELD_IN_HOLDING) in the text, the
\* formatted text holds IN_SECURITY from y's variable to x's variable, and
\* no relationship of the original type between the two, in either direction
C30_HeldInReversed ==
  fm.pc = "formatted" =>
    \A i \in HeldInRels(fm.cypher) :
      LET x == WrittenFor(fm.cypher, fm.cypher.items[i].from)
          y == WrittenFor(fm.cypher, fm.cypher.items[i].to)
      IN /\ \E j \in 1..Len(fm.out.items) : fm.out.items[j] = RelStmt(y, "IN_SECURITY", x)
         /\ \A j \in 1..Len(fm.out.items) :
              (fm.out.items[j].k = "rel" /\ fm.out.items[j].type = fm.cypher.items[i].type)
                => {fm.out.items[j].from, fm.out.items[j].to} # {x, y}

\* the text held such a relationship and has been formatted
C30_Witness ==
  fm.pc = "formatted" /\ fm.out.sections /\ HeldInRels(fm.cypher) # {}

\* ---------------------------------------------------------------- C39
\* C39: in a text formatStructuredCypher has written, two node statements
\* for different (label, id) keys never carry the same variable, the node
\* statements written for inline nodes included
C39_DistinctVariables ==
  (fm.pc \in {"formatted", "again"} /\ fm.out.sections) =>
    \A i, j \in 1..Len(fm.out.items) :
      (/\ fm.out.items[i].k = "node" /\ fm.out.items[j].k = "node"
       /\ KeyText(fm.out.items[i]) # KeyText(fm.out.items[j]))
        => fm.out.items[i].var # fm.out.items[j].var

\* ---------------------------------------------------------------- C32
\* the relationships the two passes for missing links have added to the
\* text given to formatStructuredCypher
AddedLinks(prog) ==
  SubSeq(CompletedRels(prog).items, Len(WrittenRels(prog).items) + 1,
         Len(CompletedRels(prog).items))

\* the relationship loop has written a relationship of the type between the
\* two variables
Written(prog, from, type, to) ==
  \E i \in 1..Len(WrittenRels(prog).items) :
    WrittenRels(prog).items[i] = RelStmt(from, type, to)

\* the variables of the formatted text that a node statement gives the label
VarsOf(prog, label) ==
  {prog.items[i].var : i \in {j \in 1..Len(prog.items) :
                                prog.items[j].k = "node" /\ prog.items[j].label = label}}

\* C32: a link is added for a node only when the relationship loop wrote no
\* relationship of that type between the node and a node of the required
\* label: no EXECUTED_TRADE from an Account to the Trade, no ON_SECURITY
\* from the Trade to a Security, no IN_SECURITY from the Investment to a
\* Security
C32_LinkAddedOnlyIfMissing ==
  (fm.pc = "formatted" /\ fm.out.sections) =>
    \A n \in 1..Len(AddedLinks(fm.cypher)) :
      LET link == AddedLinks(fm.cypher)[n]
      IN IF link.type = "EXECUTED_TRADE"
         THEN \A account \in VarsOf(fm.out, "Account") :
                ~Written(fm.cypher, account, "EXECUTED_TRADE", link.to)
         ELSE \A security \in VarsOf(fm.out, "Security") :
                ~Written(fm.cypher, link.from, link.type, security)

\* ---------------------------------------------------------------- C31
\* the declarations generateConstraints has written for a label
DeclaredFor(label) ==
  {i \in 1..Len(fm.out.cons) : fm.out.cons[i].label = label}

\* the property names of an entry that name an identifier of its label
IdentifiersOf(entry) ==
  {entry.props[i] : i \in {j \in 1..Len(entry.props) :
     IsTrueId(entry.label, entry.props[j]) \/ IsGenericId(entry.props[j])}}

TrueIdsOf(entry) ==
  {entry.props[i] : i \in {j \in 1..Len(entry.props) : IsTrueId(entry.label, entry.props[j])}}

\* C31: for every label of the schema with an identifier property there is
\* exactly one declaration, on a true id of the label when it has one and
\* else on a generic id; a label without identifier has none
C31_OneConstraintPerLabel ==
  fm.pc = "constrained" =>
    \A e \in 1..Len(fm.sch) :
      LET entry == fm.sch[e]
          keys == {ToLower(fm.out.cons[i].property) : i \in DeclaredFor(entry.label)}
      IN IF IdentifiersOf(entry) = {} THEN DeclaredFor(entry.label) = {}
         ELSE /\ Cardinality(DeclaredFor(entry.label)) = 1
              /\ keys \subseteq {ToLower(prop) : prop \in
                                   IF TrueIdsOf(entry) # {} THEN TrueIdsOf(entry)
                                   ELSE IdentifiersOf(entry)}

\* ------------------------------------------- splitCypherStatements, alone
\* the characters of the texts splitCypherStatements is applied to: the three
\* quote characters, the backslash, the semicolon, white space and a letter
SQ == Tok("quote", 2)
BQ == Tok("quote", 3)
BS == Tok("bs", 0)
TXT == Tok("txt", 1)
SplitChars == {SQ, DQ, BQ, BS, SEMI, WS, TXT}

SplitTexts == UNION {[1..n -> SplitChars] : n \in 0..MaxSplitText}

NoStatements == <<>>

NewSplit(cypher) ==
  [called |-> TRUE, cypher |-> cypher, statements |-> NoStatements, pc |-> "text"]

SplitInit ==
  /\ Uploaded /\ rs = NoBackoff /\ ck = NoChunker
  /\ \E cypher \in SplitTexts : fm = NewSplit(cypher)

\* "const statements = splitCypherStatements(cypher)"
SplitStatements ==
  /\ fm.pc = "text"
  /\ fm' = [fm EXCEPT !.statements = splitCypherStatements(fm.cypher), !.pc = "split"]
  /\ UNCHANGED <<storeVars, neoVars, callVars, allVars, ppc, pipe, parked, rs, ck>>

SplitNext == SplitStatements

SplitSpec == SplitInit /\ [][SplitNext]_vars

\* ---------------------------------------------------------------- C33
\* the number of backslashes that end right before position i
RECURSIVE BackslashRun(_, _)
BackslashRun(text, i) ==
  IF i > 1 /\ text[i - 1].t = "bs" THEN 1 + BackslashRun(text, i - 1) ELSE 0

\* the character at i is escaped: an odd run of backslashes precedes it (a
\* pair of backslashes is an escaped backslash and escapes nothing)
Escaped(text, i) == BackslashRun(text, i) % 2 = 1

\* the literal open after the characters 1..i: 0 when none is open, else
\* the id of the quote character that opened it
RECURSIVE OpenLiteral(_, _)
OpenLiteral(text, i) ==
  IF i = 0 THEN 0
  ELSE LET before == OpenLiteral(text, i - 1)
       IN IF text[i].t # "quote" \/ Escaped(text, i) THEN before
          ELSE IF before = 0 THEN text[i].id
          ELSE IF before = text[i].id THEN 0
          ELSE before

\* the positions of the semicolons that lie outside every quoted literal
SplitPoints(text) ==
  {i \in 1..Len(text) : text[i].t = "semi" /\ OpenLiteral(text, i) = 0}

\* the pieces of the text between the split points, from position from on
RECURSIVE PiecesFrom(_, _)
PiecesFrom(text, from) ==
  LET later == {i \in SplitPoints(text) : i >= from}
  IN IF later = {} THEN <<SubSeq(text, from, Len(text))>>
     ELSE LET at == CHOOSE i \in later : \A j \in later : i <= j
          IN <<SubSeq(text, from, at - 1)>> \o PiecesFrom(text, at + 1)

TrimmedPieces(text) ==
  LET trimmed == [i \in 1..Len(PiecesFrom(text, 1)) |-> Trim(PiecesFrom(text, 1)[i])]
      nonEmpty(s) == s # <<>>
  IN SelectSeq(trimmed, nonEmpty)

\* C33: splitCypherStatements returns the trimmed, non-empty pieces of its
\* input between the semicolons that lie outside every quoted literal, in
\* input order
C33_SplitsOutsideLiterals ==
  fm.pc = "split" => fm.statements = TrimmedPieces(fm.cypher)

\* ============================== retryWithBackoff as extractSchema calls it
\* maxRetries of the options extractSchema passes
ExtractMaxRetries == 3

\* the options object of extractSchema's call: { maxRetries, initialDelay,
\* maxDelay, isRetryable: isRetryableError }, as the set of its keys
ExtractSchemaOptions == {"maxRetries", "initialDelay", "maxDelay", "isRetryable"}

\* "const { ..., shouldRetry = () => true, ... } = options", applied to a
\* thrown error: the function under the key shouldRetry (isRetryableError
\* where a caller passes one), or the default
ShouldRetryOption(options, error) ==
  IF "shouldRetry" \in options THEN isRetryableError(error) ELSE TRUE

\* what extractSchemaWithRetry throws: the model's answer holds no JSON, the
\* extracted schema is not valid, the model call timed out, the model
\* endpoint answered 503
JsonError == Err("Failed to extract JSON from schema response", {}, "", 0)
InvalidSchemaError == Err("Invalid schema structure", {"invalid"}, "", 0)
ModelTimeoutError == Err("LLM request timed out", {"timed out"}, "", 0)
ModelUnavailableError == Err("Service Unavailable", {}, "", 503)
ExtractionErrors == {JsonError, InvalidSchemaError, ModelTimeoutError, ModelUnavailableError}

\* the call retryWithBackoff(extractSchemaWithRetry, options) at its first
\* "await fn()": attempt 0, one invocation of the model, nothing thrown
NewExtractRetry(options) ==
  [called |-> TRUE, options |-> options, attempt |-> 0, invoked |-> 1,
   thrown |-> <<>>, ended |-> "no"]

ExtractRetryInit ==
  /\ Uploaded /\ ck = NoChunker /\ fm = NoFormat
  /\ rs = NewExtractRetry(ExtractSchemaOptions)

\* extractSchemaWithRetry threw: the catch block of the loop asks shouldRetry,
\* then tests the attempt number, then waits and calls fn() again
ExtractThrow ==
  /\ rs.ended = "no"
  /\ \E error \in ExtractionErrors :
       LET after == AfterFailedAttempt(ShouldRetryOption(rs.options, error),
                                       rs.attempt, ExtractMaxRetries)
       IN rs' = IF after = "throw"
                THEN [rs EXCEPT !.thrown = Append(@, error), !.ended = "throw"]
                ELSE [rs EXCEPT !.thrown = Append(@, error), !.attempt = @ + 1,
                                !.invoked = @ + 1]
  /\ UNCHANGED <<storeVars, neoVars, callVars, allVars, ppc, pipe, parked, ck, fm>>

\* extractSchemaWithRetry returned the validated schema
ExtractReturn ==
  /\ rs.ended = "no"
  /\ rs' = [rs EXCEPT !.ended = "return"]
  /\ UNCHANGED <<storeVars, neoVars, callVars, allVars, ppc, pipe, parked, ck, fm>>

ExtractRetryNext == ExtractThrow \/ ExtractReturn

ExtractRetrySpec == ExtractRetryInit /\ [][ExtractRetryNext]_vars

\* ---------------------------------------------------------------- C34
\* C34: once the extraction operation has failed with an error that
\* isRetryableError classifies as non-retryable, the wrapper does not invoke
\* it again: that failure is the last invocation of the model
C34_NonRetryableNotReinvoked ==
  \A i \in 1..Len(rs.thrown) : ~isRetryableError(rs.thrown[i]) => rs.invoked = i

\* ---------------------------------------------------------------- C35
\* ingestAllChunks has returned and its caller has not gone on
IngestAllReturned == apc = "idle" /\ aret = "return"

\* the units whose ingestion this call of ingestAllChunks attempted, and
\* those whose last ingest call returned
AttemptedUnits == {order[i] : i \in 1..Len(order)}
IngestedUnits == {u \in AttemptedUnits : prevRet[u].kind = "return"}

ReturnedStoredSchema ==
  /\ ppc = "constraints"
  /\ \A i \in 1..Len(pipe.ext) : pipe.ext[i].op # "schemaModel"

\* C36: the stored Schema extractSchema returns to a run was stored by an
\* extraction that succeeded, never by one that failed
C36_NoSchemaAfterFailedExtraction ==
  ReturnedStoredSchema => ~schema.failed

\* ---------------------------------------------------------------- C37
\* the chunks whose generation ended in error: the stored result is the
\* placeholder with status error when ingestAllChunks starts
FailedGeneration(u) ==
  /\ u \in 1..Len(chunks) /\ results[u].exists
  /\ results[u].generatedCypher = PlaceholderCypher

\* C37: ingestAllChunks submits no chunk whose generation ended in error: no
\* ingest call is made for it, so none is retried, and its status is never
\* ingesting
C37_FailedChunksNotIngested ==
  \A u \in Units \ {0} :
    FailedGeneration(u) => tries[u].invoked = 0 /\ chunks[u].status # "ingesting"

\* ---------------------------------------------------------------- C38
\* the units whose results the generation stage of the current run stored:
\* the whole-document unit or the chunks of the run
GeneratedUnits == IF pipe.useFullDocument THEN {0} ELSE 1..Len(chunks)

\* the whole-document result findOne({ docId, chunkId: null }) returns is the
\* one the last generation stored: no later one is in the store
NewestFullResult == extra.full = <<>>

\* C38: the units the ingestion stage of a run submits are the units that
\* run generated, and the whole-document result it reads is the one that run
\* stored
C38_IngestsOwnResults ==
  ppc = "ingesting" =>
    /\ AttemptedUnits \subseteq GeneratedUnits
    /\ (0 \in AttemptedUnits => NewestFullResult)

====
